---- MODULE Spec2Model ----
(***************************************************************************)
(* Model of the adaptive streaming client of GenerateVideo                 *)
(* (src/src/api_client.py): the content-type dispatch, the four stream     *)
(* parsers and the payload extractor.                                      *)
(*                                                                         *)
(* Text and bytes are sequences of lexical atoms (strings).  An atom is    *)
(* either one character ("\n", " ", "A") or an indivisible run of          *)
(* characters such as "data:", "[DONE]" or a whole JSON document; a chunk  *)
(* boundary may fall between any two atoms.  ASCII text and its UTF-8      *)
(* bytes are written with the same atoms.                                  *)
(***************************************************************************)
EXTENDS Integers, Sequences, FiniteSets, TLC

(***************************************************************************)
(* Bounds of the model.                                                    *)
(***************************************************************************)
\* longest content-type header value, in atoms
MaxCtLen == 2
\* largest number of chunks the response body is delivered in
MaxChunks == 2

(***************************************************************************)
(* Generic sequence helpers (Python built-ins used by the code).           *)
(***************************************************************************)
\* b"".join(chunks) / "".join(parts)
RECURSIVE Join(_)
Join(parts) ==
    IF parts = <<>> THEN <<>> ELSE Head(parts) \o Join(Tail(parts))

\* str.startswith for a pattern that is one atom
StartsWith(text, atom) == Len(text) > 0 /\ text[1] = atom

\* `atom in text` for a pattern that is one atom
Contains(text, atom) == \E i \in 1..Len(text) : text[i] = atom

\* characters str.strip() removes
IsSpace(a) == a \in {" ", "\n", "\r", "\t"}

RECURSIVE LStrip(_)
LStrip(text) ==
    IF text # <<>> /\ IsSpace(Head(text)) THEN LStrip(Tail(text)) ELSE text

RECURSIVE RStrip(_)
RStrip(text) ==
    IF text # <<>> /\ IsSpace(text[Len(text)])
    THEN RStrip(SubSeq(text, 1, Len(text) - 1))
    ELSE text

\* str.strip()
Strip(text) == RStrip(LStrip(text))

\* text.split("\n"): always at least one segment, the last one is the text
\* after the last newline
RECURSIVE SplitAt(_, _)
SplitAt(text, cur) ==
    IF text = <<>> THEN <<cur>>
    ELSE IF Head(text) = "\n" THEN <<cur>> \o SplitAt(Tail(text), <<>>)
    ELSE SplitAt(Tail(text), Append(cur, Head(text)))

SplitLines(text) == SplitAt(text, <<>>)

\* lines[:-1]
AllButLast(s) == SubSeq(s, 1, Len(s) - 1)

\* lines[-1]
Last(s) == s[Len(s)]

(***************************************************************************)
(* Format classifier: generate_video reads and lower-cases the header,     *)
(* _parse_streaming_response dispatches on it.                             *)
(***************************************************************************)
\* atoms a content-type header value is made of
CtAtoms ==
    {"video/", "Video/", "mp4", "application/", "octet-stream",
     "text/event-stream", "TEXT/EVENT-STREAM", "json", "x-nd", "text/plain"}

\* str.lower() on one atom
LowerAtom(a) ==
    CASE a = "Video/" -> "video/"
      [] a = "TEXT/EVENT-STREAM" -> "text/event-stream"
      [] OTHER -> a

\* str.lower()
Lower(text) == [i \in 1..Len(text) |-> LowerAtom(text[i])]

\* header values: "absent" is a response without a content-type header
CtValues == UNION {[1..n -> CtAtoms] : n \in 1..MaxCtLen}
Headers == {[present |-> FALSE, value |-> <<>>]}
           \cup {[present |-> TRUE, value |-> v] : v \in CtValues}

\* response.headers.get("content-type", "").lower()
HeaderContentType(h) == Lower(IF h.present THEN h.value ELSE <<>>)

\* the rule order of _parse_streaming_response, with the order of the SSE
\* and JSON tests exchanged
ClassifyJsonFirst(content_type) ==
    IF Contains(content_type, "octet-stream") \/ StartsWith(content_type, "video/")
    THEN "Binary"
    ELSE IF Contains(content_type, "json") THEN "NDJSON"
    ELSE IF Contains(content_type, "text/event-stream") THEN "SSE"
    ELSE "Unknown"

\* the if/elif chain of _parse_streaming_response
Classify(content_type) ==
    IF Contains(content_type, "octet-stream") \/ StartsWith(content_type, "video/")
    THEN "Binary"
    ELSE IF Contains(content_type, "text/event-stream") THEN "SSE"
    ELSE IF Contains(content_type, "json") THEN "NDJSON"
    ELSE "Unknown"

(***************************************************************************)
(* JSON values, as json.loads returns them, and the Python operations the  *)
(* extractor applies to them.  A string value is a sequence of atoms.      *)
(***************************************************************************)
JObj(f) == [t |-> "obj", f |-> f]
JArr(e) == [t |-> "arr", e |-> e]
JStr(s) == [t |-> "str", s |-> s]
JNum == [t |-> "num"]
JNull == [t |-> "null"]
\* a bytes object (no JSON value is one; _decode_video_data accepts it)
JBytes(b) == [t |-> "bytes", b |-> b]

\* Optional[bytes]
NoneVal == [none |-> TRUE, bytes |-> <<>>]
Some(b) == [none |-> FALSE, bytes |-> b]

\* `if video_chunk:` - None and b"" are both falsy
Truthy(opt) == ~opt.none /\ opt.bytes # <<>>

\* `key in v`: a key test on a dict, an element test on a list, a substring
\* test on a str; TypeError on a number or null
PyIn(key, v) ==
    CASE v.t = "obj" -> IF key \in DOMAIN v.f THEN "T" ELSE "F"
      [] v.t = "arr" -> IF \E i \in 1..Len(v.e) :
                               v.e[i].t = "str" /\ v.e[i].s = <<key>>
                        THEN "T" ELSE "F"
      [] v.t = "str" -> IF Contains(v.s, key) THEN "T" ELSE "F"
      [] OTHER -> "TypeError"

\* v[key] with a str key is defined on a dict only
CanSubscript(v) == v.t = "obj"

\* the order in which a set of dict keys is visited
RECURSIVE KeySeq(_)
KeySeq(S) ==
    IF S = {} THEN <<>>
    ELSE LET k == CHOOSE x \in S : TRUE IN <<JStr(<<k>>)>> \o KeySeq(S \ {k})

\* `for x in v`: TypeError on a number or null
CanIterate(v) == v.t \in {"obj", "arr", "str"}
Iterate(v) ==
    CASE v.t = "arr" -> v.e
      [] v.t = "obj" -> KeySeq(DOMAIN v.f)
      [] v.t = "str" -> [i \in 1..Len(v.s) |-> JStr(<<v.s[i]>>)]
      [] OTHER -> <<>>

(***************************************************************************)
(* Inline decode: _decode_video_data, base64.b64decode and bytes.fromhex.  *)
(***************************************************************************)
\* the characters of an atom, for the atoms that occur in string values
Chars(a) ==
    CASE a = "http" -> <<"h", "t", "t", "p">>
      [] a = "://x/y.mp4" -> <<":", "/", "/", "x", "/", "y", ".", "m", "p", "4">>
      [] a = "://x/gone" -> <<":", "/", "/", "x", "/", "g", "o", "n", "e">>
      [] a = "://x/slow" -> <<":", "/", "/", "x", "/", "s", "l", "o", "w">>
      [] a = "<video" -> <<"<", "v", "i", "d", "e", "o">>
      [] a = "src=" -> <<"s", "r", "c", "=">>
      [] a = "url" -> <<"u", "r", "l">>
      [] a = "hello" -> <<"h", "e", "l", "l", "o">>
      [] OTHER -> <<a>>

RECURSIVE Explode(_)
Explode(s) == IF s = <<>> THEN <<>> ELSE Chars(Head(s)) \o Explode(Tail(s))

B64Alphabet ==
    <<"A", "B", "C", "D", "E", "F", "G", "H", "I", "J", "K", "L", "M",
      "N", "O", "P", "Q", "R", "S", "T", "U", "V", "W", "X", "Y", "Z",
      "a", "b", "c", "d", "e", "f", "g", "h", "i", "j", "k", "l", "m",
      "n", "o", "p", "q", "r", "s", "t", "u", "v", "w", "x", "y", "z",
      "0", "1", "2", "3", "4", "5", "6", "7", "8", "9", "+", "/">>

IsB64Char(c) == \E i \in 1..64 : B64Alphabet[i] = c
B64Index(c) == (CHOOSE i \in 1..64 : B64Alphabet[i] = c) - 1

\* printable ASCII, code 32 first
AsciiPrintable ==
    <<" ", "!", "\"", "#", "$", "%", "&", "'", "(", ")", "*", "+", ",", "-", ".", "/",
      "0", "1", "2", "3", "4", "5", "6", "7", "8", "9", ":", ";", "<", "=", ">", "?",
      "@", "A", "B", "C", "D", "E", "F", "G", "H", "I", "J", "K", "L", "M", "N", "O",
      "P", "Q", "R", "S", "T", "U", "V", "W", "X", "Y", "Z", "[", "\\", "]", "^", "_",
      "\\x96", "a", "b", "c", "d", "e", "f", "g", "h", "i", "j", "k", "l", "m", "n", "o",
      "p", "q", "r", "s", "t", "u", "v", "w", "x", "y", "z", "{", "|", "}", "~">>

\* the atom of one byte value
Chr(n) ==
    IF n >= 32 /\ n <= 126 THEN AsciiPrintable[n - 31] ELSE "\\x" \o ToString(n)

IsAscii(c) == c = "\n" \/ c = "\r" \/ c = "\t"
              \/ \E i \in 1..Len(AsciiPrintable) : AsciiPrintable[i] = c

\* binascii.a2b_base64 in its default, non-strict mode: characters outside
\* the alphabet are discarded, a pad that completes a quad ends the input,
\* an incomplete last quad is an error
RECURSIVE A2bBase64(_, _, _, _, _)
A2bBase64(s, quad_pos, leftchar, pads, out) ==
    IF s = <<>>
    THEN IF quad_pos # 0 THEN [ok |-> FALSE, bytes |-> <<>>]
                         ELSE [ok |-> TRUE, bytes |-> out]
    ELSE LET c == Head(s) IN
         IF c = "="
         THEN IF quad_pos >= 2 /\ quad_pos + pads + 1 >= 4
              THEN [ok |-> TRUE, bytes |-> out]
              ELSE A2bBase64(Tail(s), quad_pos, leftchar, pads + 1, out)
         ELSE IF ~IsB64Char(c)
         THEN A2bBase64(Tail(s), quad_pos, leftchar, pads, out)
         ELSE LET v == B64Index(c) IN
              CASE quad_pos = 0 -> A2bBase64(Tail(s), 1, v, 0, out)
                [] quad_pos = 1 ->
                     A2bBase64(Tail(s), 2, v % 16, 0,
                               Append(out, Chr(leftchar * 4 + v \div 16)))
                [] quad_pos = 2 ->
                     A2bBase64(Tail(s), 3, v % 4, 0,
                               Append(out, Chr(leftchar * 16 + v \div 4)))
                [] OTHER ->
                     A2bBase64(Tail(s), 0, 0, 0,
                               Append(out, Chr(leftchar * 64 + v)))

\* base64.b64decode(value) for a str: ValueError on a non-ASCII character
B64Decode(s) ==
    IF \E i \in 1..Len(s) : ~IsAscii(s[i])
    THEN [ok |-> FALSE, bytes |-> <<>>]
    ELSE A2bBase64(s, 0, 0, 0, <<>>)

HexDigits ==
    <<"0", "1", "2", "3", "4", "5", "6", "7", "8", "9",
      "a", "b", "c", "d", "e", "f", "A", "B", "C", "D", "E", "F">>

IsHexDigit(c) == \E i \in 1..22 : HexDigits[i] = c
HexValue(c) ==
    LET i == CHOOSE j \in 1..22 : HexDigits[j] = c IN
    IF i <= 16 THEN i - 1 ELSE i - 7

\* bytes.fromhex(value): pairs of hex digits, ASCII whitespace between the
\* pairs is skipped, anything else is a ValueError
RECURSIVE FromHex(_, _)
FromHex(s, out) ==
    IF s = <<>> THEN [ok |-> TRUE, bytes |-> out]
    ELSE IF IsSpace(Head(s)) THEN FromHex(Tail(s), out)
    ELSE IF Len(s) >= 2 /\ IsHexDigit(s[1]) /\ IsHexDigit(s[2])
    THEN FromHex(Tail(Tail(s)),
                 Append(out, Chr(HexValue(s[1]) * 16 + HexValue(s[2]))))
    ELSE [ok |-> FALSE, bytes |-> <<>>]

\* _decode_video_data: bytes as they are; a str as base64 first, then hex,
\* else None; any other value gives None
FirstDecoding(b64, hex) ==
    IF b64.ok THEN Some(b64.bytes)
    ELSE IF hex.ok THEN Some(hex.bytes)
    ELSE NoneVal

DecodeStr(s) == FirstDecoding(B64Decode(s), FromHex(s, <<>>))

DecodeVideoData(value) ==
    IF value.t = "bytes" THEN Some(value.b)
    ELSE IF value.t # "str" THEN NoneVal
    ELSE DecodeStr(Explode(value.s))

(***************************************************************************)
(* URL dereference: _download_video_from_url.  The remote side is a fixed  *)
(* table: one URL is live, one answers 404, one times out.                 *)
(***************************************************************************)
UrlLive == <<"http", "://x/y.mp4">>
UrlGone == <<"http", "://x/gone">>
UrlSlow == <<"http", "://x/slow">>

\* body of the live resource
LiveBody == <<"V", "1">>

\* what client.get(url) does: a response, or an exception ("raised")
HttpGet(url) ==
    CASE url = UrlLive -> [raised |-> FALSE, status_code |-> 200, content |-> LiveBody]
      [] url = UrlGone -> [raised |-> FALSE, status_code |-> 404, content |-> <<"g", "o", "n", "e">>]
      [] url = UrlSlow -> [raised |-> TRUE, status_code |-> 0, content |-> <<>>]
      [] OTHER -> [raised |-> TRUE, status_code |-> 0, content |-> <<>>]

\* a dereference that takes the body of any response
DownloadAnyStatus(url) ==
    LET response == HttpGet(url) IN
    IF response.raised THEN NoneVal ELSE Some(response.content)

\* _download_video_from_url: the body on status 200, None otherwise
DownloadVideoFromUrl(url) ==
    LET response == HttpGet(url) IN
    IF response.raised THEN NoneVal
    ELSE IF response.status_code = 200 THEN Some(response.content)
    ELSE NoneVal

(***************************************************************************)
(* URL extraction: extract_url_from_html.  The result is a URL (a str) or  *)
(* None.                                                                   *)
(***************************************************************************)
NoUrl == [found |-> FALSE, url |-> <<>>]
FoundUrl(u) == [found |-> TRUE, url |-> u]

IsQuote(a) == a = "'" \/ a = "\""

\* index of the quote that closes a group starting at position g, 0 if none
ClosingQuote(s, g) ==
    IF \E k \in g..Len(s) : IsQuote(s[k])
    THEN CHOOSE k \in g..Len(s) :
             IsQuote(s[k]) /\ \A m \in g..(k - 1) : ~IsQuote(s[m])
    ELSE 0

\* re.search(r"<video[^>]+src=['\"]([^'\"]+)['\"]", text) matches with the
\* tag at i and the src attribute at j
TagMatches(s, i, j) ==
    /\ s[i] = "<video"
    /\ j >= i + 2 /\ j + 1 <= Len(s)
    /\ s[j] = "src="
    /\ \A m \in (i + 1)..(j - 1) : s[m] # ">"
    /\ IsQuote(s[j + 1])
    /\ ClosingQuote(s, j + 2) >= j + 3

\* group(1) of the leftmost match, the greedy [^>]+ taking the last src=
Least(S) == CHOOSE x \in S : \A y \in S : x <= y
Greatest(S) == CHOOSE x \in S : \A y \in S : x >= y

TagHits(s) == {p \in (1..Len(s)) \X (1..Len(s)) : TagMatches(s, p[1], p[2])}
SrcAt(s, j) == FoundUrl(SubSeq(s, j + 2, ClosingQuote(s, j + 2) - 1))
SrcOfTag(s, hits, i) == SrcAt(s, Greatest({p[2] : p \in {q \in hits : q[1] = i}}))
SrcOfHits(s, hits) ==
    IF hits = {} THEN NoUrl ELSE SrcOfTag(s, hits, Least({p[1] : p \in hits}))

VideoTagSrc(s) == SrcOfHits(s, TagHits(s))

\* the rules in the other order: the prefix before the tag
PlainUrlOrTag(s, tag) ==
    IF StartsWith(s, "http") THEN FoundUrl(s)
    ELSE IF tag.found THEN tag
    ELSE NoUrl

\* the plain-URL rule, after the tag rule gave `tag`
TagOrPlainUrl(s, tag) ==
    IF tag.found THEN tag
    ELSE IF StartsWith(s, "http") THEN FoundUrl(s)
    ELSE NoUrl

\* extract_url_from_html
ExtractUrlFromHtml(value) ==
    IF value.t # "str" THEN NoUrl ELSE TagOrPlainUrl(value.s, VideoTagSrc(value.s))

(***************************************************************************)
(* Payload extractor: _extract_video_from_json.  A search step either      *)
(* returns (k = "ret", with an Optional[bytes]), raises (k = "raise") or   *)
(* falls through to the next statement (k = "next").                       *)
(***************************************************************************)
possible_fields ==
    <<"video", "data", "content", "file", "video_data", "video_content",
      "binary", "base64">>

url_fields == <<"url", "video_url", "download_url", "file_url", "uri", "content">>

Ret(opt) == [k |-> "ret", r |-> opt]
Raise(e) == [k |-> "raise", r |-> NoneVal, e |-> e]
FallThrough == [k |-> "next", r |-> NoneVal]

\* statements in sequence: the second runs when the first neither returned
\* nor raised
Then(first, second) == IF first.k # "next" THEN first ELSE second

\* if url: return _download_video_from_url(url)
ReturnDownload(url) ==
    IF url.found /\ url.url # <<>> THEN Ret(DownloadVideoFromUrl(url.url))
    ELSE FallThrough

\* for field in url_fields: if field in obj: ... if url: return download
RECURSIVE SearchUrlFields(_, _)
SearchUrlFields(obj, fields) ==
    IF fields = <<>> THEN FallThrough
    ELSE IF PyIn(Head(fields), obj) = "TypeError" THEN Raise("TypeError")
    ELSE IF PyIn(Head(fields), obj) = "F" THEN SearchUrlFields(obj, Tail(fields))
    ELSE IF ~CanSubscript(obj) THEN Raise("TypeError")
    ELSE Then(ReturnDownload(ExtractUrlFromHtml(obj.f[Head(fields)])),
              SearchUrlFields(obj, Tail(fields)))

\* for field in possible_fields: if field in obj and field != "content":
\*     return _decode_video_data(obj[field])
RECURSIVE SearchDataFields(_, _)
SearchDataFields(obj, fields) ==
    IF fields = <<>> THEN FallThrough
    ELSE IF PyIn(Head(fields), obj) = "TypeError" THEN Raise("TypeError")
    ELSE IF PyIn(Head(fields), obj) = "F" \/ Head(fields) = "content"
    THEN SearchDataFields(obj, Tail(fields))
    ELSE IF ~CanSubscript(obj) THEN Raise("TypeError")
    ELSE Ret(DecodeVideoData(obj.f[Head(fields)]))

\* the URL fields of one object, then its data fields
SearchObject(obj) ==
    Then(SearchUrlFields(obj, url_fields), SearchDataFields(obj, possible_fields))

\* if key in choice: search choice[key]
SearchSubObject(choice, key) ==
    IF PyIn(key, choice) = "TypeError" THEN Raise("TypeError")
    ELSE IF PyIn(key, choice) = "F" THEN FallThrough
    ELSE IF ~CanSubscript(choice) THEN Raise("TypeError")
    ELSE SearchObject(choice.f[key])

\* the body of `for choice in data["choices"]`: delta, then message
SearchChoice(choice) ==
    Then(SearchSubObject(choice, "delta"), SearchSubObject(choice, "message"))

RECURSIVE SearchChoices(_)
SearchChoices(choices) ==
    IF choices = <<>> THEN FallThrough
    ELSE Then(SearchChoice(Head(choices)), SearchChoices(Tail(choices)))

\* if "choices" in data: for choice in data["choices"]: ...
SearchChoicesOf(data) ==
    IF PyIn("choices", data) = "TypeError" THEN Raise("TypeError")
    ELSE IF PyIn("choices", data) = "F" THEN FallThrough
    ELSE IF ~CanSubscript(data) THEN Raise("TypeError")
    ELSE IF ~CanIterate(data.f["choices"]) THEN Raise("TypeError")
    ELSE SearchChoices(Iterate(data.f["choices"]))

\* _extract_video_from_json: choices first, then the top level; None when
\* nothing returned
ExtractVideoFromJson(data) ==
    Then(SearchChoicesOf(data), Then(SearchObject(data), Ret(NoneVal)))

(***************************************************************************)
(* JSON documents of the model and json.loads.  Each document is one atom, *)
(* spelled as its text.                                                    *)
(***************************************************************************)
B64Hi == JStr(<<"a", "G", "k", "=">>)
B64Ok == JStr(<<"b", "2", "s", "=">>)

\* {"choices":[{"delta":{"video":"aGk="}}]}
EvHi == "{\"choices\":[{\"delta\":{\"video\":\"aGk=\"}}]}"
\* {"data":"b2s="}
EvOk == "{\"data\":\"b2s=\"}"
\* {"choices":[{"delta":{"content":"hello"}}]}
EvProse == "{\"choices\":[{\"delta\":{\"content\":\"hello\"}}]}"
\* {"url":"http://x/gone"}
EvGone == "{\"url\":\"http://x/gone\"}"
\* {"url":"http://x/y.mp4","video":"aGk="}
EvUrl == "{\"url\":\"http://x/y.mp4\",\"video\":\"aGk=\"}"
\* {"choices":[{"delta":null}]}
EvNullDelta == "{\"choices\":[{\"delta\":null}]}"
\* {"url":"http://x/slow"}
EvSlow == "{\"url\":\"http://x/slow\"}"
\* 5
EvNum == "5"
\* "hello"
EvStr == "\"hello\""

JsonDocAtoms == {EvHi, EvOk, EvProse, EvGone, EvUrl, EvNullDelta, EvSlow, EvNum, EvStr}

JsonDoc(a) ==
    CASE a = EvHi -> JObj([choices |-> JArr(<<JObj([delta |-> JObj([video |-> B64Hi])])>>)])
      [] a = EvOk -> JObj([data |-> B64Ok])
      [] a = EvProse ->
            JObj([choices |-> JArr(<<JObj([delta |-> JObj([content |-> JStr(<<"hello">>)])])>>)])
      [] a = EvGone -> JObj([url |-> JStr(UrlGone)])
      [] a = EvUrl -> JObj([url |-> JStr(UrlLive), video |-> B64Hi])
      [] a = EvNullDelta -> JObj([choices |-> JArr(<<JObj([delta |-> JNull])>>)])
      [] a = EvSlow -> JObj([url |-> JStr(UrlSlow)])
      [] a = EvNum -> JNum
      [] OTHER -> JStr(<<"hello">>)

\* json.loads(text): a document atom alone is its value, a run of digits is
\* a number, anything else (no text, other text, text after a document) is
\* a JSONDecodeError
JsonLoads(text) ==
    IF Len(text) = 1 /\ text[1] \in JsonDocAtoms
    THEN [ok |-> TRUE, v |-> JsonDoc(text[1])]
    ELSE IF text # <<>> /\ \A i \in 1..Len(text) : text[i] = EvNum
    THEN [ok |-> TRUE, v |-> JNum]
    ELSE [ok |-> FALSE, v |-> JNull]

(***************************************************************************)
(* Line handling of the SSE and NDJSON loops.  The state of a loop is the  *)
(* chunk list and the exception that left it ("none" while it runs).       *)
(***************************************************************************)
Running(vc) == [exc |-> "none", vc |-> vc]
Raised(e, vc) == [exc |-> e, vc |-> vc]

\* a chunk list that puts the new chunk first
PrependVideoChunk(vc, chunk) == <<chunk>> \o vc

\* video_chunks.append(video_chunk)
AppendVideoChunk(vc, chunk) == Append(vc, chunk)

\* a handler that lets the JSONDecodeError escape
OnJsonDecodeErrorRaise(vc) == Raised("JSONDecodeError", vc)

\* except json.JSONDecodeError: ... continue
OnJsonDecodeError(vc) == Running(vc)

\* the try block shared by the loops: json.loads, the extractor, the append;
\* log_keys is the warning of _parse_sse_stream that calls data.keys()
HandleExtracted(data, x, vc, log_keys) ==
    IF x.k = "raise" THEN Raised(x.e, vc)
    ELSE IF Truthy(x.r) THEN Running(AppendVideoChunk(vc, x.r.bytes))
    ELSE IF log_keys /\ data.t # "obj" THEN Raised("AttributeError", vc)
    ELSE Running(vc)

HandleParsed(parsed, vc, log_keys) ==
    IF ~parsed.ok THEN OnJsonDecodeError(vc)
    ELSE HandleExtracted(parsed.v, ExtractVideoFromJson(parsed.v), vc, log_keys)

HandleJson(text, vc, log_keys) == HandleParsed(JsonLoads(text), vc, log_keys)

\* a sentinel that throws away the chunks collected so far
SseDataDoneResets(data_str, vc, log_keys) ==
    IF data_str = <<"[DONE]">> THEN Running(<<>>)
    ELSE HandleJson(data_str, vc, log_keys)

\* one line of the SSE loops
SseData(data_str, vc, log_keys) ==
    IF data_str = <<"[DONE]">> THEN Running(vc)
    ELSE HandleJson(data_str, vc, log_keys)

SseStripped(line, vc, log_keys) ==
    IF ~StartsWith(line, "data:") THEN Running(vc)
    ELSE SseData(Strip(Tail(line)), vc, log_keys)

SseLine(line, vc, log_keys) == SseStripped(Strip(line), vc, log_keys)

\* a loop that takes only data: lines
JsonStrippedNeedsPrefix(line, vc) == SseStripped(line, vc, FALSE)

\* one line of the NDJSON loops
JsonStripped(line, vc) ==
    IF line = <<>> THEN Running(vc) ELSE HandleJson(line, vc, FALSE)

JsonLine(line, vc) == JsonStripped(Strip(line), vc)

\* for line in lines[:-1]; mode is "sse" (_parse_sse_stream), "sse_auto"
\* (the SSE branch of _parse_unknown_stream) or "json"
OneLine(line, vc, mode) ==
    IF mode = "json" THEN JsonLine(line, vc) ELSE SseLine(line, vc, mode = "sse")

RECURSIVE ProcessLines(_, _, _)
RestOfLines(r, lines, mode) ==
    IF r.exc # "none" THEN r ELSE ProcessLines(lines, r.vc, mode)

ProcessLines(lines, vc, mode) ==
    IF lines = <<>> THEN Running(vc)
    ELSE RestOfLines(OneLine(Head(lines), vc, mode), Tail(lines), mode)

StepResult(buf, r) == [buffer |-> buf, vc |-> r.vc, exc |-> r.exc]

SplitStep(lines, vc, mode) ==
    StepResult(Last(lines), ProcessLines(AllButLast(lines), vc, mode))

\* a step that splits the new chunk alone and forgets the text kept from
\* the chunks before
ChunkStepNoCarry(buf, vc, text, mode) == SplitStep(SplitLines(text), vc, mode)

\* buffer += chunk; lines = buffer.split("\n"); buffer = lines[-1];
\* for line in lines[:-1]: ...
ChunkStep(buf, vc, text, mode) == SplitStep(SplitLines(buf \o text), vc, mode)

(***************************************************************************)
(* Bytes and text of the response body.                                    *)
(***************************************************************************)
\* b"\x00\x00\x00\x18ftypmp4", b"\x00\x00\x00\x1cftypiso", b"RIFF",
\* b"\x1aE\xdf\xa3"
video_signatures ==
    <<"\\x00\\x00\\x00\\x18ftypmp4", "\\x00\\x00\\x00\\x1cftypiso", "RIFF",
      "\\x1aE\\xdf\\xa3">>

\* a byte that is not valid UTF-8
BadByte == "\\xff"

\* chunk.decode("utf-8")
Utf8Decode(chunk) ==
    IF Contains(chunk, BadByte) THEN [ok |-> FALSE, text |-> <<>>]
    ELSE [ok |-> TRUE, text |-> chunk]

\* one chunk of response.iter_text(): undecodable bytes become U+FFFD
IterText(chunk) ==
    [i \in 1..Len(chunk) |-> IF chunk[i] = BadByte THEN "\\ufffd" ELSE chunk[i]]

\* text.startswith("{")
BeginsWithBrace(text) ==
    Len(text) > 0 /\ text[1] \in {EvHi, EvOk, EvProse, EvGone, EvUrl, EvNullDelta, EvSlow, "{bad"}

(***************************************************************************)
(* The response body: the chunks response.iter_bytes() yields.  httpx      *)
(* never yields an empty chunk.                                            *)
(***************************************************************************)
Chunks ==
    { <<"data:", " ", EvHi, "\n">>,
      <<"data:", " ", EvOk>>,
      <<"\n">>,
      <<"data:", " ", "not-json", "\n", "data:", " ", EvOk, "\n">>,
      <<"data:", " ", "[DONE]", "\n">>,
      <<"data:", " ", EvNum, "\n">>,
      <<"data:", " ", EvGone, "\n">>,
      <<"data:", " ", EvSlow, "\n">>,
      <<"data:", " ", EvUrl, "\n">>,
      <<"not-json", "\n", "\n", EvOk, "\n">>,
      <<EvGone, "\n", EvUrl, "\n">>,
      <<EvOk, "\n">>,
      <<EvHi>>,
      <<"not-json", "\n">>,
      <<"\\x00\\x00\\x00\\x18ftypmp4", "A", "B">>,
      <<"\\x00\\x00\\x00\\x1cftypiso", "A">>,
      <<"RIFF", EvOk, "\n">>,
      <<"\\x1aE\\xdf\\xa3", "A">>,
      <<"A", "B">>,
      <<"C", "D">>,
      <<BadByte>> }

Streams == UNION {[1..n -> Chunks] : n \in 0..MaxChunks}

\* content-type headers of the responses the pipeline is run on
PipelineHeaders ==
    { [present |-> FALSE, value |-> <<>>],
      [present |-> TRUE, value |-> <<"video/", "mp4">>],
      [present |-> TRUE, value |-> <<"text/event-stream">>],
      [present |-> TRUE, value |-> <<"application/", "json">>] }

(***************************************************************************)
(* State.                                                                  *)
(***************************************************************************)
VARIABLES
    header,        \* the content-type header of the response
    stream,        \* the body, as the chunks it arrives in
    pos,           \* number of chunks the iterator has yielded
    pc,            \* where generate_video is
    strategy,      \* the parser _parse_streaming_response chose
    first_chunk,   \* _parse_unknown_stream: the chunk read ahead
    buffer,        \* the text after the last newline seen
    video_chunks,  \* payload pieces the extractor returned
    chunks,        \* raw chunks collected by a binary loop
    outcome,       \* what generate_video returned or raised
    event,         \* runs of one function: the value handed in
    extracted,     \* runs of one function: what the function did
    net            \* the main request: what was sent, what is open

vars == <<header, stream, pos, pc, strategy, first_chunk, buffer,
          video_chunks, chunks, outcome, event, extracted, net>>

NoOutcome == [kind |-> "none", data |-> <<>>, msg |-> "", status |-> 0, body |-> <<>>]
Returned(data) == [NoOutcome EXCEPT !.kind = "return", !.data = data]
Failed(kind, msg) == [NoOutcome EXCEPT !.kind = kind, !.msg = msg]

\* APIError(f"API request failed with status {response.status_code}: {error_text}")
StatusFailure(status_code, error_text) ==
    [Failed("APIError", "API request failed with status")
        EXCEPT !.status = status_code, !.body = error_text]

\* what a parser hands back to generate_video
ParserReturn(data) == [exc |-> "none", data |-> data, msg |-> ""]
ParserRaise(exc, msg) == [exc |-> exc, data |-> <<>>, msg |-> msg]

\* a test that never finds the payload empty
NeverEmpty(video_data) == FALSE

\* `not video_data`
IsEmptyPayload(video_data) == video_data = <<>>

\* except clauses that let an exception of another type pass as it is
AfterParserLetsEscape(p) ==
    IF p.exc = "none"
    THEN IF IsEmptyPayload(p.data)
         THEN Failed("StreamingError", "No video data received from API")
         ELSE Returned(p.data)
    ELSE Failed(p.exc, p.msg)

\* generate_video after _parse_streaming_response: the empty-payload check
\* and the except clauses
AfterParser(p) ==
    IF p.exc = "none"
    THEN IF IsEmptyPayload(p.data)
         THEN Failed("StreamingError", "No video data received from API")
         ELSE Returned(p.data)
    ELSE IF p.exc = "StreamingError" THEN Failed("StreamingError", p.msg)
    ELSE Failed("StreamingError", "Unexpected error during video generation")

\* initial values of the variables a run does not choose
Idle ==
    /\ pos = 0
    /\ strategy = "none"
    /\ first_chunk = <<>>
    /\ buffer = <<>>
    /\ video_chunks = <<>>
    /\ chunks = <<>>
    /\ outcome = NoOutcome
    /\ extracted = FallThrough

\* an optional str argument
NoneStr == [none |-> TRUE, s |-> ""]
Str(s) == [none |-> FALSE, s |-> s]

\* a content list that starts with the text entry
BuildContentTextFirst(prompt, img1_b64, img2_b64) ==
    LET image(img) ==
            IF img.none \/ img.s = "" THEN <<>>
            ELSE << [type |-> "image_url",
                     url |-> "data:image/jpeg;base64," \o img.s, text |-> ""] >>
    IN << [type |-> "text", url |-> "", text |-> prompt] >>
       \o image(img1_b64) \o image(img2_b64)

\* the content list: "if img1_b64:", "if img2_b64:", then the text entry
BuildContent(prompt, img1_b64, img2_b64) ==
    LET image(img) ==
            IF img.none \/ img.s = "" THEN <<>>
            ELSE << [type |-> "image_url",
                     url |-> "data:image/jpeg;base64," \o img.s, text |-> ""] >>
    IN image(img1_b64) \o image(img2_b64)
       \o << [type |-> "text", url |-> "", text |-> prompt] >>

\* the payload dict
BuildPayload(args) ==
    [model |-> args.model,
     messages |-> << [role |-> "user",
                      content |-> BuildContent(args.prompt, args.img1_b64,
                                               args.img2_b64)] >>,
     stream |-> TRUE]

\* response.headers.get("content-length"): None, or the text of the header
NoHeader == [none |-> TRUE, text |-> <<>>]
HeaderText(text) == [none |-> FALSE, text |-> text]

\* a call of generate_video before any of its code has run: what the server
\* and the network will do, and the arguments
NetStart(connect, status_code, ending, args) ==
    [connect |-> connect, status_code |-> status_code, ending |-> ending,
     args |-> args, sent |-> <<>>, client |-> "none", response |-> "none",
     raised |-> "none", content_length |-> NoHeader]

\* httpx.Client(...) and client.stream("POST", API_ENDPOINT, json=payload, ...)
\* entered: the request is on the wire; the response is open unless the
\* connection failed
Opened(n) ==
    [n EXCEPT !.sent = Append(@, [method |-> "POST", json |-> BuildPayload(n.args)]),
              !.client = "open",
              !.response = IF n.connect = "ok" THEN "open" ELSE "none"]

\* leaving the two `with` blocks, by return or by exception
Release(n) ==
    [n EXCEPT !.client = IF @ = "open" THEN "closed" ELSE @,
              !.response = IF @ = "open" THEN "closed" ELSE @]

\* a call with no images whose request is answered 200 and read to its end
PlainCall ==
    NetStart("ok", 200, "eof",
             [prompt |-> "p", model |-> "m", img1_b64 |-> NoneStr,
              img2_b64 |-> NoneStr])

\* the iterator of the body ends: the server closed the stream in order
EndOfStream == net.ending = "eof"

\* a return or raise that keeps the client and the response open
FinishLeavesOpen(p) ==
    /\ pc' = "done"
    /\ outcome' = AfterParser(p)
    /\ net' = IF p.exc = "none" THEN Release(net) ELSE net

\* generate_video returns or raises out of the parser call
Finish(p) ==
    /\ pc' = "done"
    /\ outcome' = AfterParser(p)
    /\ net' = Release(net)

(***************************************************************************)
(* generate_video: the request and the dispatch.                           *)
(***************************************************************************)
\* int(text) succeeds: decimal digits with an optional sign, blanks around
\* them allowed
IsInt(text) ==
    LET t == Strip(text)
        d == IF t # <<>> /\ t[1] \in {"+", "-"} THEN Tail(t) ELSE t
    IN /\ d # <<>>
       /\ \A i \in 1..Len(d) :
             d[i] \in {"0", "1", "2", "3", "4", "5", "6", "7", "8", "9"}

\* the header is read and _parse_streaming_response entered:
\* total_size = int(content_length) if content_length else None, whose
\* ValueError ends the call, and then the choice of the parser
DispatchWith(content_length) ==
    /\ pc = "request"
    /\ IF /\ ~content_length.none
          /\ content_length.text # <<>>
          /\ ~IsInt(content_length.text)
       THEN /\ Finish(ParserRaise("ValueError", ""))
            /\ UNCHANGED strategy
       ELSE /\ strategy' = Classify(HeaderContentType(header))
            /\ pc' = CASE strategy' = "Binary" -> "binary"
                       [] strategy' = "SSE" -> "sse"
                       [] strategy' = "NDJSON" -> "json"
                       [] OTHER -> "unknown"
            /\ UNCHANGED <<net, outcome>>
    /\ UNCHANGED <<header, stream, pos, first_chunk, buffer, video_chunks,
                   chunks, event, extracted>>

Dispatch == DispatchWith(net.content_length)

(***************************************************************************)
(* _parse_binary_stream.                                                   *)
(***************************************************************************)
\* a loop body that puts the new chunk first
BinaryPrepend(cs, chunk) == <<chunk>> \o cs

\* chunks.append(chunk)
BinaryAppend(cs, chunk) == Append(cs, chunk)

BinaryChunk ==
    /\ pc = "binary"
    /\ pos < Len(stream)
    /\ chunks' = BinaryAppend(chunks, stream[pos + 1])
    /\ pos' = pos + 1
    /\ UNCHANGED <<net, header, stream, pc, strategy, first_chunk, buffer,
                   video_chunks, outcome, event, extracted>>

BinaryEnd ==
    /\ pc = "binary"
    /\ pos = Len(stream)
    /\ EndOfStream
    /\ Finish(ParserReturn(Join(chunks)))
    /\ UNCHANGED <<header, stream, pos, strategy, first_chunk, buffer,
                   video_chunks, chunks, event, extracted>>

(***************************************************************************)
(* _parse_sse_stream and _parse_json_stream.                               *)
(***************************************************************************)
\* the loop goes on after a step, or an exception leaves the parser
AfterStep(r) ==
    /\ buffer' = r.buffer
    /\ video_chunks' = r.vc
    /\ IF r.exc = "none"
       THEN UNCHANGED <<pc, outcome, net>>
       ELSE Finish(ParserRaise(r.exc, ""))

\* one pass of `for chunk in response.iter_text()`
TextChunk(at, mode) ==
    /\ pc = at
    /\ pos < Len(stream)
    /\ pos' = pos + 1
    /\ AfterStep(ChunkStep(buffer, video_chunks, IterText(stream[pos + 1]), mode))
    /\ UNCHANGED <<header, stream, strategy, first_chunk, chunks, event, extracted>>

\* an end of the loop without the test on the chunk list
TextEndReturnsEmpty(at, msg) ==
    /\ pc = at
    /\ pos = Len(stream)
    /\ EndOfStream
    /\ Finish(ParserReturn(Join(video_chunks)))
    /\ UNCHANGED <<header, stream, pos, strategy, first_chunk, buffer,
                   video_chunks, chunks, event, extracted>>

\* after the loop: raise on an empty chunk list, else join
TextEnd(at, msg) ==
    /\ pc = at
    /\ pos = Len(stream)
    /\ EndOfStream
    /\ IF video_chunks = <<>>
       THEN Finish(ParserRaise("StreamingError", msg))
       ELSE Finish(ParserReturn(Join(video_chunks)))
    /\ UNCHANGED <<header, stream, pos, strategy, first_chunk, buffer,
                   video_chunks, chunks, event, extracted>>

SseChunk == TextChunk("sse", "sse")
SseEnd == TextEnd("sse", "No video data found in SSE stream")
JsonChunk == TextChunk("json", "json")
JsonEnd == TextEnd("json", "No video data found in JSON stream")

(***************************************************************************)
(* _parse_unknown_stream.                                                  *)
(***************************************************************************)
\* any(first_chunk.startswith(sig) for sig in video_signatures)
IsLikelyVideo(chunk) ==
    \E i \in 1..Len(video_signatures) : StartsWith(chunk, video_signatures[i])

\* the branch the first chunk selects
Detect(chunk) ==
    IF IsLikelyVideo(chunk) THEN "unknown_video"
    ELSE IF ~Utf8Decode(chunk).ok THEN "unknown_raw"
    ELSE IF StartsWith(Strip(Utf8Decode(chunk).text), "data:") THEN "unknown_sse"
    ELSE IF BeginsWithBrace(Strip(Utf8Decode(chunk).text)) THEN "unknown_json"
    ELSE "unknown_raw"

\* a raw branch that forgets the chunk read ahead
UnknownFirstDropsChunk ==
    /\ pc = "unknown"
    /\ Len(stream) = 0 => EndOfStream
    /\ IF Len(stream) = 0
       THEN /\ Finish(ParserRaise("StreamingError", "Empty response received"))
            /\ UNCHANGED <<pos, first_chunk, buffer, chunks>>
       ELSE /\ first_chunk' = stream[1]
            /\ pos' = 1
            /\ pc' = Detect(stream[1])
            /\ buffer' = IF pc' \in {"unknown_sse", "unknown_json"}
                         THEN Utf8Decode(stream[1]).text ELSE <<>>
            /\ chunks' = <<>>
            /\ UNCHANGED <<outcome, net>>
    /\ UNCHANGED <<header, stream, strategy, video_chunks, event, extracted>>

\* first_chunk = next(chunks_iter), and the choice of the branch
UnknownFirst ==
    /\ pc = "unknown"
    /\ Len(stream) = 0 => EndOfStream
    /\ IF Len(stream) = 0
       THEN /\ Finish(ParserRaise("StreamingError", "Empty response received"))
            /\ UNCHANGED <<pos, first_chunk, buffer, chunks>>
       ELSE /\ first_chunk' = stream[1]
            /\ pos' = 1
            /\ pc' = Detect(stream[1])
            /\ buffer' = IF pc' \in {"unknown_sse", "unknown_json"}
                         THEN Utf8Decode(stream[1]).text ELSE <<>>
            /\ chunks' = IF pc' \in {"unknown_video", "unknown_raw"}
                         THEN <<stream[1]>> ELSE <<>>
            /\ UNCHANGED <<outcome, net>>
    /\ UNCHANGED <<header, stream, strategy, video_chunks, event, extracted>>

\* a raw loop that reads a chunk and does not keep it
RawChunkDrops ==
    /\ pc \in {"unknown_video", "unknown_raw"}
    /\ pos < Len(stream)
    /\ pos' = pos + 1
    /\ UNCHANGED <<net, header, stream, pc, strategy, first_chunk, buffer,
                   video_chunks, chunks, outcome, event, extracted>>

\* the loops that collect raw chunks: after a signature, and the fall back
RawChunk ==
    /\ pc \in {"unknown_video", "unknown_raw"}
    /\ pos < Len(stream)
    /\ chunks' = BinaryAppend(chunks, stream[pos + 1])
    /\ pos' = pos + 1
    /\ UNCHANGED <<net, header, stream, pc, strategy, first_chunk, buffer,
                   video_chunks, outcome, event, extracted>>

RawEnd ==
    /\ pc \in {"unknown_video", "unknown_raw"}
    /\ pos = Len(stream)
    /\ EndOfStream
    /\ Finish(ParserReturn(Join(chunks)))
    /\ UNCHANGED <<header, stream, pos, strategy, first_chunk, buffer,
                   video_chunks, chunks, event, extracted>>

\* chunks = [first_chunk] of the fall back, entered with whatever the
\* iterator has left
FallBack ==
    /\ pc' = "unknown_raw"
    /\ chunks' = <<first_chunk>>

\* one pass of `for chunk in chunks_iter` in a text branch; a chunk that
\* does not decode leaves the try block for the fall back
AutoChunk ==
    /\ pc \in {"unknown_sse", "unknown_json"}
    /\ pos < Len(stream)
    /\ pos' = pos + 1
    /\ IF ~Utf8Decode(stream[pos + 1]).ok
       THEN /\ FallBack
            /\ UNCHANGED <<buffer, video_chunks, outcome, net>>
       ELSE /\ AfterStep(ChunkStep(buffer, video_chunks,
                                   Utf8Decode(stream[pos + 1]).text,
                                   IF pc = "unknown_sse" THEN "sse_auto" ELSE "json"))
            /\ UNCHANGED chunks
    /\ UNCHANGED <<header, stream, strategy, first_chunk, event, extracted>>

\* after the loop of a text branch: the payload if any, else the fall back
AutoEnd ==
    /\ pc \in {"unknown_sse", "unknown_json"}
    /\ pos = Len(stream)
    /\ EndOfStream
    /\ IF video_chunks # <<>>
       THEN /\ Finish(ParserReturn(Join(video_chunks)))
            /\ UNCHANGED chunks
       ELSE /\ FallBack
            /\ UNCHANGED <<outcome, net>>
    /\ UNCHANGED <<header, stream, pos, strategy, first_chunk, buffer,
                   video_chunks, event, extracted>>

(***************************************************************************)
(* The pipeline: one call of generate_video on one response.               *)
(***************************************************************************)
Init ==
    /\ header \in PipelineHeaders
    /\ stream \in Streams
    /\ pc = "request"
    /\ event = JNull
    /\ net = Opened(PlainCall)
    /\ Idle

Next ==
    \/ Dispatch
    \/ BinaryChunk
    \/ BinaryEnd
    \/ SseChunk
    \/ SseEnd
    \/ JsonChunk
    \/ JsonEnd
    \/ UnknownFirst
    \/ RawChunk
    \/ RawEnd
    \/ AutoChunk
    \/ AutoEnd

Spec == Init /\ [][Next]_vars

(***************************************************************************)
(* The main request of generate_video: the POST, the status check, and     *)
(* what the network does to the call.                                      *)
(***************************************************************************)
\* except clauses that let an exception of httpx reach `except Exception`
OnTransportErrorUnexpected(kind) ==
    Failed("StreamingError", "Unexpected error during video generation")

\* `except httpx.TimeoutException` and `except httpx.HTTPError`
OnTransportError(kind) ==
    IF kind = "timeout" THEN Failed("APIError", "Request timeout")
    ELSE Failed("APIError", "HTTP error")

\* an exception of httpx leaves generate_video through the `with` blocks
Abort(n, kind) ==
    /\ pc' = "done"
    /\ outcome' = OnTransportError(kind)
    /\ net' = Release([n EXCEPT !.raised = kind])

\* the payload is built and client.stream(...) is entered
SendRequest ==
    /\ pc = "start"
    /\ IF net.connect = "ok"
       THEN /\ net' = Opened(net)
            /\ pc' = "status"
            /\ UNCHANGED outcome
       ELSE Abort(Opened(net), net.connect)
    /\ UNCHANGED <<header, stream, pos, strategy, first_chunk, buffer,
                   video_chunks, chunks, event, extracted>>

\* a status check that raises without reading the body
CheckStatusNoRead ==
    /\ pc = "status"
    /\ IF net.status_code >= 400
       THEN /\ pc' = "done"
            /\ outcome' = StatusFailure(net.status_code, <<>>)
            /\ net' = Release(net)
       ELSE /\ pc' = "request"
            /\ UNCHANGED <<outcome, net>>
    /\ UNCHANGED <<header, stream, pos, strategy, first_chunk, buffer,
                   video_chunks, chunks, event, extracted>>

\* "if response.status_code >= 400:" response.read(), response.text, raise
CheckStatus ==
    /\ pc = "status"
    /\ IF net.status_code >= 400
       THEN /\ pos' = Len(stream)
            /\ IF net.ending = "eof"
               THEN /\ pc' = "done"
                    /\ outcome' = StatusFailure(net.status_code,
                                                IterText(Join(stream)))
                    /\ net' = Release(net)
               ELSE Abort(net, net.ending)
       ELSE /\ pc' = "request"
            /\ UNCHANGED <<pos, outcome, net>>
    /\ UNCHANGED <<header, stream, strategy, first_chunk, buffer,
                   video_chunks, chunks, event, extracted>>

\* a failed read that sends the request again
ReadFailsRetries ==
    /\ pc \in {"binary", "sse", "json", "unknown", "unknown_video",
               "unknown_raw", "unknown_sse", "unknown_json"}
    /\ pos = Len(stream)
    /\ net.ending # "eof"
    /\ IF Len(net.sent) < 2
       THEN /\ pc' = "start"
            /\ net' = Release(net)
            /\ UNCHANGED outcome
       ELSE Abort(net, net.ending)
    /\ UNCHANGED <<header, stream, pos, strategy, first_chunk, buffer,
                   video_chunks, chunks, event, extracted>>

\* the iterator of the body raises where the stream breaks off
ReadFails ==
    /\ pc \in {"binary", "sse", "json", "unknown", "unknown_video",
               "unknown_raw", "unknown_sse", "unknown_json"}
    /\ pos = Len(stream)
    /\ net.ending # "eof"
    /\ Abort(net, net.ending)
    /\ UNCHANGED <<header, stream, pos, strategy, first_chunk, buffer,
                   video_chunks, chunks, event, extracted>>

\* calls of generate_video: the arguments, and what the server and the
\* network do
InitTransport ==
    LET Prompts == {"", "p"}
        Models == {"m"}
        Img1 == {NoneStr, Str(""), Str("aGk=")}
        Img2 == {NoneStr, Str(""), Str("b2s=")}
        Args == [prompt : Prompts, model : Models, img1_b64 : Img1,
                 img2_b64 : Img2]
        Bodies == { <<"data:", " ", EvHi, "\n">>,
                    <<"data:", " ", EvNum, "\n">>,
                    <<"A", "B">>,
                    <<BadByte>> }
    IN /\ header \in PipelineHeaders
       /\ stream \in UNION {[1..n -> Bodies] : n \in 0..MaxChunks}
       /\ pc = "start"
       /\ event = JNull
       /\ net \in {NetStart(c, 200, "eof", a) : c \in {"timeout", "error"}, a \in Args}
                  \cup {NetStart("ok", st, e, a) :
                           st \in {200, 399, 400, 503},
                           e \in {"eof", "timeout", "error"}, a \in Args}
                  \cup {[NetStart("ok", st, e, PlainCall.args)
                            EXCEPT !.content_length = HeaderText(cl)] :
                           st \in {200, 503},
                           e \in {"eof", "timeout"},
                           cl \in {<<>>, <<"1", "2">>, <<" ", "+", "7">>,
                                   <<"a", "b", "c">>, <<"1", ".", "5">>}}
       /\ Idle

NextTransport ==
    \/ SendRequest
    \/ CheckStatus
    \/ ReadFails
    \/ Next

SpecTransport == InitTransport /\ [][NextTransport]_vars

(***************************************************************************)
(* The classifier on its own: every header value up to MaxCtLen atoms.     *)
(***************************************************************************)
InitClassify ==
    /\ header \in Headers
    /\ stream = <<>>
    /\ pc = "request"
    /\ event = JNull
    /\ net = Opened(PlainCall)
    /\ Idle

SpecClassify == InitClassify /\ [][Dispatch]_vars

(***************************************************************************)
(* The extractor on its own: _extract_video_from_json applied to one JSON  *)
(* value.                                                                  *)
(***************************************************************************)
\* largest number of fields of a generated object
MaxFields == 2

\* "abcdef": valid hex, not valid base64
HexStr == JStr(<<"a", "b", "c", "d", "e", "f">>)
\* "zz": neither base64 nor hex
Undecodable == JStr(<<"z", "z">>)
\* <video src='http://x/y.mp4'>
VideoTag == JStr(<<"<video", " ", "src=", "'", "http", "://x/y.mp4", "'", ">">>)

FieldValues ==
    {B64Hi, B64Ok, HexStr, Undecodable, JNum, JStr(UrlLive), JStr(UrlGone),
     JStr(UrlSlow), JStr(<<"hello">>), VideoTag}

FieldNames == {"url", "content", "video", "data", "file"}

\* objects with 1..n of the field names
ObjectsOf(n) ==
    UNION {[D -> FieldValues] :
           D \in {S \in SUBSET FieldNames : Cardinality(S) \in 1..n}}

FlatObjects == {JObj(o) : o \in ObjectsOf(MaxFields)}
SmallObjects == {JObj(o) : o \in ObjectsOf(1)}

\* {"choices":[{"delta":d,"message":m}]}, {"choices":[{"delta":d},{"delta":m}]}
ChoiceEvents ==
    {JObj([choices |-> JArr(<<JObj([delta |-> d, message |-> m])>>)]) :
        d \in SmallObjects, m \in SmallObjects}
    \cup {JObj([choices |-> JArr(<<JObj([delta |-> d]), JObj([delta |-> m])>>)]) :
        d \in SmallObjects, m \in SmallObjects}

\* values that are not objects of the expected shape
OddEvents ==
    {JNum, JNull, JStr(<<"hello">>), JStr(<<"my", " ", "url">>), JArr(<<JNum>>),
     JObj([choices |-> JNum]), JObj([choices |-> JArr(<<JNum>>)]),
     JObj([choices |-> JArr(<<JObj([delta |-> JNull])>>)]),
     JObj([choices |-> JObj([delta |-> B64Hi])])}

\* objects with two URL fields and an inline data field
TwoUrlEvents ==
    {JObj([url |-> u, content |-> c, video |-> B64Hi]) :
        u \in {JStr(UrlLive), JStr(UrlGone), JStr(<<"hello">>)},
        c \in {JStr(UrlLive), JStr(UrlGone), JStr(<<"hello">>)}}

ExtractEvents == FlatObjects \cup ChoiceEvents \cup TwoUrlEvents \cup OddEvents

InitExtract ==
    /\ event \in ExtractEvents
    /\ header = [present |-> FALSE, value |-> <<>>]
    /\ stream = <<>>
    /\ pc = "extract"
    /\ net = PlainCall
    /\ Idle

Extract ==
    /\ pc = "extract"
    /\ extracted' = ExtractVideoFromJson(event)
    /\ pc' = "extracted"
    /\ UNCHANGED <<net, header, stream, pos, strategy, first_chunk, buffer,
                   video_chunks, chunks, outcome, event>>

SpecExtract == InitExtract /\ [][Extract]_vars

(***************************************************************************)
(* URL extraction on its own: extract_url_from_html applied to one field   *)
(* value.                                                                  *)
(***************************************************************************)
\* longest text made of free atoms
MaxTextLen == 3

\* the values handed in: short texts over a few atoms, "not a url", video
\* tags (well formed and not) with something before and after, and values
\* that are not text
UrlArguments ==
    LET UrlAtoms == {"<video", " ", "src=", "'", "\"", "http", ">", "x"}
        ShortTexts == UNION {[1..n -> UrlAtoms] : n \in 0..MaxTextLen}
        TagForms ==
            { <<"<video", " ", "src=", "'", "http", "://x/y.mp4", "'", ">">>,
              <<"<video", " ", "src=", "\"", "http", "://x/y.mp4", "\"", ">">>,
              <<"<video", " ", "src=", "'", "x", "\"", ">">>,
              <<"<video", " ", "src=", "'", "http">>,
              <<"<video", ">", " ", "src=", "'", "x", "'">>,
              <<"<video", "src=", "'", "x", "'", ">">>,
              <<"<video", " ", "src=", "'", "'", ">">>,
              <<"<video", " ", "src=", "'", "a", "'", " ", "src=", "'", "b", "'", ">">> }
        Pads == {<<>>, <<"http">>, <<"x">>, <<">">>}
        PaddedTags == {p \o t \o q : p \in Pads, t \in TagForms, q \in Pads}
    IN {JStr(t) : t \in ShortTexts \cup PaddedTags \cup {<<"not", " ", "a", " ", "url">>}}
       \cup {JNum, JNull, JArr(<<JStr(UrlLive)>>), JObj([url |-> JStr(UrlLive)])}

InitUrl ==
    /\ event \in UrlArguments
    /\ header = [present |-> FALSE, value |-> <<>>]
    /\ stream = <<>>
    /\ pc = "url"
    /\ net = PlainCall
    /\ Idle

UrlExtract ==
    /\ pc = "url"
    /\ extracted' = ExtractUrlFromHtml(event)
    /\ pc' = "url_done"
    /\ UNCHANGED <<net, header, stream, pos, strategy, first_chunk, buffer,
                   video_chunks, chunks, outcome, event>>

SpecUrl == InitUrl /\ [][UrlExtract]_vars

(***************************************************************************)
(* Inline decode on its own: _decode_video_data applied to one value.      *)
(***************************************************************************)
\* longest text made of free characters
MaxDecodeLen == 4

\* the values handed in: every short text over a few characters, some
\* longer texts, bytes objects, and values of other types
DecodeArguments ==
    LET DecodeChars == {"a", "b", "G", "k", "=", "z", " ", "!"}
        DecodeTexts ==
            UNION {[1..n -> DecodeChars] : n \in 0..MaxDecodeLen}
            \cup { <<"a", "b", " ", "c", "d">>,
                    <<"a", "b", "c", "d", "e", "f">>,
                    <<"d", "e", "a", "d", "b", "e", "e", "f">>,
                    <<"z", "z", "z", "z", "!">>,
                    <<"n", "o", "t", " ", "f", "o", "u", "n", "d">>,
                    <<"\\xe9">> }
    IN {JStr(t) : t \in DecodeTexts}
       \cup {JBytes(<<>>), JBytes(<<"r", "a", "w">>), JBytes(<<"a", "G", "k", "=">>),
             JNum, JNull, JArr(<<B64Hi>>), JObj([data |-> B64Hi])}

InitDecode ==
    /\ event \in DecodeArguments
    /\ header = [present |-> FALSE, value |-> <<>>]
    /\ stream = <<>>
    /\ pc = "decode"
    /\ net = PlainCall
    /\ Idle

Decode ==
    /\ pc = "decode"
    /\ extracted' = DecodeVideoData(event)
    /\ pc' = "decoded"
    /\ UNCHANGED <<net, header, stream, pos, strategy, first_chunk, buffer,
                   video_chunks, chunks, outcome, event>>

SpecDecode == InitDecode /\ [][Decode]_vars

(***************************************************************************)
(* Round trip: encode_image_to_base64 on one image file, then              *)
(* _decode_video_data on the text it returned.  A file is its existence,   *)
(* its suffix and its content, a sequence of byte values.                  *)
(***************************************************************************)
\* longest file content
MaxImageLen == 5

\* src.config.VALID_IMAGE_FORMATS and src.config.MAX_IMAGE_SIZE (bytes)
VALID_IMAGE_FORMATS == {".jpg", ".jpeg", ".png"}
MAX_IMAGE_SIZE == 4

\* files: there or not, three suffixes, every content over four byte values
ImageFiles ==
    [exists : BOOLEAN, suffix : {".png", ".JPG", ".txt"},
     data : UNION {[1..n -> {0, 104, 105, 255}] : n \in 0..MaxImageLen}]

\* the checks before the file is read: exists(), suffix.lower(), st_size
ImageAccepted(f) ==
    /\ f.exists
    /\ (IF f.suffix = ".JPG" THEN ".jpg" ELSE f.suffix) \in VALID_IMAGE_FORMATS
    /\ ~(Len(f.data) > MAX_IMAGE_SIZE)

\* an encoder that leaves the padding out
RECURSIVE B64EncodeNoPad(_)
B64EncodeNoPad(d) ==
    IF d = <<>> THEN <<>>
    ELSE IF Len(d) = 1
    THEN <<B64Alphabet[d[1] \div 4 + 1], B64Alphabet[(d[1] % 4) * 16 + 1]>>
    ELSE IF Len(d) = 2
    THEN <<B64Alphabet[d[1] \div 4 + 1],
           B64Alphabet[(d[1] % 4) * 16 + d[2] \div 16 + 1],
           B64Alphabet[(d[2] % 16) * 4 + 1]>>
    ELSE <<B64Alphabet[d[1] \div 4 + 1],
           B64Alphabet[(d[1] % 4) * 16 + d[2] \div 16 + 1],
           B64Alphabet[(d[2] % 16) * 4 + d[3] \div 64 + 1],
           B64Alphabet[(d[3] % 64) + 1]>> \o B64EncodeNoPad(SubSeq(d, 4, Len(d)))

\* base64.b64encode(image_data).decode('utf-8'): three bytes to four
\* characters, the last group padded with "="
RECURSIVE B64Encode(_)
B64Encode(d) ==
    IF d = <<>> THEN <<>>
    ELSE IF Len(d) = 1
    THEN <<B64Alphabet[d[1] \div 4 + 1], B64Alphabet[(d[1] % 4) * 16 + 1], "=", "=">>
    ELSE IF Len(d) = 2
    THEN <<B64Alphabet[d[1] \div 4 + 1],
           B64Alphabet[(d[1] % 4) * 16 + d[2] \div 16 + 1],
           B64Alphabet[(d[2] % 16) * 4 + 1], "=">>
    ELSE <<B64Alphabet[d[1] \div 4 + 1],
           B64Alphabet[(d[1] % 4) * 16 + d[2] \div 16 + 1],
           B64Alphabet[(d[2] % 16) * 4 + d[3] \div 64 + 1],
           B64Alphabet[(d[3] % 64) + 1]>> \o B64Encode(SubSeq(d, 4, Len(d)))

InitRoundTrip ==
    /\ event \in ImageFiles
    /\ header = [present |-> FALSE, value |-> <<>>]
    /\ stream = <<>>
    /\ pc = "image"
    /\ net = PlainCall
    /\ Idle

\* encode_image_to_base64: InvalidImageError, or the text (kept in buffer)
EncodeImage ==
    /\ pc = "image"
    /\ IF ImageAccepted(event)
       THEN /\ buffer' = B64Encode(event.data)
            /\ pc' = "encoded"
            /\ UNCHANGED outcome
       ELSE /\ outcome' = Failed("InvalidImageError", "")
            /\ pc' = "rejected"
            /\ UNCHANGED buffer
    /\ UNCHANGED <<net, header, stream, pos, strategy, first_chunk, video_chunks,
                   chunks, event, extracted>>

\* _decode_video_data on the encoder's text
DecodeEncoded ==
    /\ pc = "encoded"
    /\ extracted' = DecodeVideoData(JStr(buffer))
    /\ pc' = "roundtrip"
    /\ UNCHANGED <<net, header, stream, pos, strategy, first_chunk, buffer,
                   video_chunks, chunks, outcome, event>>

SpecRoundTrip == InitRoundTrip /\ [][EncodeImage \/ DecodeEncoded]_vars

(***************************************************************************)
(* ModelSelector.select_model over a catalog.  The catalog is the set of   *)
(* the keys of ModelCatalog.models, read from the file the catalog was     *)
(* given.                                                                  *)
(***************************************************************************)
MaxImages == 3

\* what select_model does: a model ID returned, or an exception
Selected(model_id) == [exc |-> "none", model_id |-> model_id]
SelectRaise(exc) == [exc |-> exc, model_id |-> ""]

\* a lookup that finds every ID
GetModelFindsAll(models, model_id) == "none"

\* ModelCatalog.get_model: the exception it raises, if any
GetModel(models, model_id) ==
    IF model_id \notin models THEN "ModelNotFoundError" ELSE "none"

\* an auto-selection that never looks at the orientation
AutoSelectLandscape(mode, image_count, orientation) ==
    IF mode = "t2v" THEN Selected("veo_3_1_t2v_fast_landscape")
    ELSE IF mode = "i2v"
    THEN IF image_count = 1 THEN Selected("veo_3_1_i2v_s_landscape")
         ELSE IF image_count = 2 THEN Selected("veo_3_1_i2v_s_fast_fl")
         ELSE SelectRaise("ValueError")
    ELSE SelectRaise("ValueError")

\* select_model after the test of manual_model: the auto-selection logic
AutoSelect(mode, image_count, orientation) ==
    IF mode = "t2v"
    THEN IF orientation = "portrait"
         THEN Selected("veo_3_1_t2v_fast_portrait")
         ELSE Selected("veo_3_1_t2v_fast_landscape")
    ELSE IF mode = "i2v"
    THEN IF image_count = 1
         THEN IF orientation = "portrait"
              THEN Selected("veo_3_1_i2v_s_portrait")
              ELSE Selected("veo_3_1_i2v_s_landscape")
         ELSE IF image_count = 2
         THEN IF orientation = "portrait"
              THEN Selected("veo_3_1_i2v_s_fast_portrait_fl")
              ELSE Selected("veo_3_1_i2v_s_fast_fl")
         ELSE SelectRaise("ValueError")
    ELSE SelectRaise("ValueError")

\* select_model; "if manual_model:" is false for None and for ""
SelectModel(models, mode, image_count, manual_model, orientation) ==
    IF ~manual_model.none /\ manual_model.s # ""
    THEN IF GetModel(models, manual_model.s) # "none"
         THEN SelectRaise(GetModel(models, manual_model.s))
         ELSE Selected(manual_model.s)
    ELSE AutoSelect(mode, image_count, orientation)

\* catalogs: one with every ID the selector knows, one that lacks two of
\* them, one with other models only, an empty one
Catalogs ==
    LET Known == {"veo_3_1_t2v_fast_portrait", "veo_3_1_t2v_fast_landscape",
                  "veo_3_1_i2v_s_portrait", "veo_3_1_i2v_s_landscape",
                  "veo_3_1_i2v_s_fast_portrait_fl", "veo_3_1_i2v_s_fast_fl"}
    IN { Known \cup {"veo_r2v"},
         (Known \cup {"veo_r2v"})
             \ {"veo_3_1_t2v_fast_landscape", "veo_3_1_i2v_s_fast_fl"},
         {"veo_r2v"},
         {} }

\* values of the manual_model argument and of the --model option
ManualModels ==
    {NoneStr, Str(""), Str("veo_r2v"), Str("veo_3_1_t2v_fast_portrait"),
     Str("nonexistent_model")}

InitSelect ==
    /\ event \in [models : Catalogs,
                  mode : {"t2v", "i2v", "r2v"},
                  image_count : 0..MaxImages,
                  manual_model : ManualModels,
                  orientation : {"landscape", "portrait", "square"}]
    /\ header = [present |-> FALSE, value |-> <<>>]
    /\ stream = <<>>
    /\ pc = "select"
    /\ net = PlainCall
    /\ Idle

Select ==
    /\ pc = "select"
    /\ extracted' = SelectModel(event.models, event.mode, event.image_count,
                                event.manual_model, event.orientation)
    /\ pc' = "selected"
    /\ UNCHANGED <<net, header, stream, pos, strategy, first_chunk, buffer,
                   video_chunks, chunks, outcome, event>>

SpecSelect == InitSelect /\ [][Select]_vars

(***************************************************************************)
(* The commands t2v and i2v: validation, model selection, encoding, the    *)
(* call of generate_video, and the save.  `extracted` records what the     *)
(* command has done so far.                                                *)
(***************************************************************************)
\* a command that has done nothing yet
CommandStart ==
    [encoded |-> 0, requests |-> 0, files |-> 0, exit_code |-> 0,
     prompt_text |-> <<>>, model_id |-> "", dirs |-> 0, saved_printed |-> FALSE]

\* an except clause of the command: raise click.Abort()
AbortCommand ==
    /\ pc' = "exited"
    /\ extracted' = [extracted EXCEPT !.exit_code = 1]

\* i2v: `if len(images) < 1 or len(images) > 2: raise InvalidImageError`
CheckImageCount ==
    /\ pc = "cmd_images"
    /\ IF event.images < 1 \/ event.images > 2
       THEN AbortCommand
       ELSE /\ pc' = "cmd_prompt"
            /\ UNCHANGED extracted
    /\ UNCHANGED <<net, header, stream, pos, strategy, first_chunk, buffer,
                   video_chunks, chunks, outcome, event>>

\* the prompt as given, or the stripped text of the .txt file it names
PromptText(prompt) == IF prompt.file THEN Strip(prompt.text) ELSE prompt.text

\* a prompt step without the test for an empty prompt
LoadPromptAcceptsEmpty ==
    /\ pc = "cmd_prompt"
    /\ pc' = "cmd_model"
    /\ extracted' = [extracted EXCEPT !.prompt_text = PromptText(event.prompt)]
    /\ UNCHANGED <<net, header, stream, pos, strategy, first_chunk, buffer,
                   video_chunks, chunks, outcome, event>>

\* the prompt is loaded; `if not prompt_text: raise InvalidPromptError`
LoadPrompt ==
    /\ pc = "cmd_prompt"
    /\ IF PromptText(event.prompt) = <<>>
       THEN AbortCommand
       ELSE /\ pc' = "cmd_model"
            /\ extracted' = [extracted EXCEPT
                                !.prompt_text = PromptText(event.prompt)]
    /\ UNCHANGED <<net, header, stream, pos, strategy, first_chunk, buffer,
                   video_chunks, chunks, outcome, event>>

\* selector.select_model(mode=..., image_count=len(images), manual_model=model);
\* t2v passes no image count
SelectStep ==
    /\ pc = "cmd_model"
    /\ LET r == SelectModel(event.models, event.command,
                            IF event.command = "i2v" THEN event.images ELSE 0,
                            event.model, "landscape")
       IN IF r.exc # "none"
          THEN AbortCommand
          ELSE /\ pc' = IF event.command = "i2v" THEN "cmd_encode" ELSE "cmd_api"
               /\ extracted' = [extracted EXCEPT !.model_id = r.model_id]
    /\ UNCHANGED <<net, header, stream, pos, strategy, first_chunk, buffer,
                   video_chunks, chunks, outcome, event>>

\* i2v: encode_image_to_base64 of the first image, and of the second if
\* there are two; the encoder raises InvalidImageError on a bad image
EncodeImages ==
    /\ pc = "cmd_encode"
    /\ IF event.bad_image \in 1..event.images
       THEN /\ pc' = "exited"
            /\ extracted' = [extracted EXCEPT !.encoded = event.bad_image,
                                              !.exit_code = 1]
       ELSE /\ pc' = "cmd_api"
            /\ extracted' = [extracted EXCEPT !.encoded = event.images]
    /\ UNCHANGED <<net, header, stream, pos, strategy, first_chunk, buffer,
                   video_chunks, chunks, outcome, event>>

\* a call whose exception does not keep the command from saving
CallApiThenSaves ==
    /\ pc = "cmd_api"
    /\ pc' = "cmd_save"
    /\ extracted' = [extracted EXCEPT !.requests = @ + 1]
    /\ UNCHANGED <<net, header, stream, pos, strategy, first_chunk, buffer,
                   video_chunks, chunks, outcome, event>>

\* api_client.generate_video(...): a payload, or APIError / StreamingError
CallApi ==
    /\ pc = "cmd_api"
    /\ IF event.api_ok
       THEN /\ pc' = "cmd_save"
            /\ extracted' = [extracted EXCEPT !.requests = @ + 1]
       ELSE /\ pc' = "exited"
            /\ extracted' = [extracted EXCEPT !.requests = @ + 1,
                                              !.exit_code = 1]
    /\ UNCHANGED <<net, header, stream, pos, strategy, first_chunk, buffer,
                   video_chunks, chunks, outcome, event>>

\* video_saver.generate_output_path makes the output directory, or mkdir
\* raises; video_saver.save_video_stream writes the file, or removes it again
\* and raises SaveError; then "Video saved to" is printed
SaveVideo ==
    /\ pc = "cmd_save"
    /\ pc' = "exited"
    /\ extracted' = IF ~event.mkdir_ok
                    THEN [extracted EXCEPT !.exit_code = 1]
                    ELSE IF event.save_ok
                    THEN [extracted EXCEPT !.dirs = 1, !.files = @ + 1,
                                           !.saved_printed = TRUE]
                    ELSE [extracted EXCEPT !.dirs = 1, !.exit_code = 1]
    /\ UNCHANGED <<net, header, stream, pos, strategy, first_chunk, buffer,
                   video_chunks, chunks, outcome, event>>

\* invocations of the two commands, and what the encoder, the API and the
\* disk will do
InitCommand ==
    LET Prompts == {[file |-> FALSE, text |-> <<>>],
                    [file |-> FALSE, text |-> <<" ">>],
                    [file |-> FALSE, text |-> <<"p">>],
                    [file |-> TRUE, text |-> <<" ", "\n">>],
                    [file |-> TRUE, text |-> <<" ", "p", "\n">>]}
        Invocations ==
            [command : {"t2v", "i2v"}, images : 0..MaxImages, prompt : Prompts,
             model : ManualModels, models : Catalogs, bad_image : 0..2,
             api_ok : BOOLEAN, mkdir_ok : BOOLEAN, save_ok : BOOLEAN]
    IN /\ event \in {e \in Invocations :
                        e.command = "t2v" => e.images = 0 /\ e.bad_image = 0}
       /\ pc = IF event.command = "i2v" THEN "cmd_images" ELSE "cmd_prompt"
       /\ extracted = CommandStart
       /\ header = [present |-> FALSE, value |-> <<>>]
       /\ stream = <<>>
       /\ net = PlainCall
       /\ pos = 0
       /\ strategy = "none"
       /\ first_chunk = <<>>
       /\ buffer = <<>>
       /\ video_chunks = <<>>
       /\ chunks = <<>>
       /\ outcome = NoOutcome

NextCommand ==
    \/ CheckImageCount
    \/ LoadPrompt
    \/ SelectStep
    \/ EncodeImages
    \/ CallApi
    \/ SaveVideo

SpecCommand == InitCommand /\ [][NextCommand]_vars

(***************************************************************************)
(* video_saver.save_video_stream on one output path.  `event` holds the    *)
(* content, what is at the path beforehand and what the disk will do;      *)
(* `extracted` holds what is at the path and what the function raised.     *)
(***************************************************************************)
MaxContentLen == 2

\* what is at the output path
AtPath(kind, data) == [kind |-> kind, data |-> data, exc |-> "none"]

\* output_path.write_bytes(stream_content): the file is opened for writing,
\* which fails on a directory or a refused path and otherwise truncates,
\* and the content is written, all of it or the part before the disk fails
WriteBytes ==
    /\ pc = "save"
    /\ IF event.prior = "dir" \/ event.fault = "open"
       THEN /\ pc' = "save_except"
            /\ UNCHANGED extracted
       ELSE IF event.fault = "write"
       THEN /\ pc' = "save_except"
            /\ extracted' = AtPath("file", SubSeq(event.content, 1, event.at))
       ELSE /\ pc' = "save_done"
            /\ extracted' = AtPath("file", event.content)
    /\ UNCHANGED <<net, header, stream, pos, strategy, first_chunk, buffer,
                   video_chunks, chunks, outcome, event>>

\* except (OSError, IOError): output_path.unlink(missing_ok=True), then
\* raise SaveError; unlink raises on a directory and where the directory
\* of the path refuses the removal
CleanUp ==
    /\ pc = "save_except"
    /\ pc' = "save_done"
    /\ extracted' =
          IF extracted.kind = "absent"
          THEN [extracted EXCEPT !.exc = "SaveError"]
          ELSE IF extracted.kind = "dir" \/ event.unlink_denied
          THEN [extracted EXCEPT !.exc = "OSError"]
          ELSE [AtPath("absent", <<>>) EXCEPT !.exc = "SaveError"]
    /\ UNCHANGED <<net, header, stream, pos, strategy, first_chunk, buffer,
                   video_chunks, chunks, outcome, event>>

\* saves: the content, the path beforehand, and the faults of the disk
InitSave ==
    LET Contents == UNION {[1..n -> {"A", "B"}] : n \in 0..MaxContentLen}
        Saves == [content : Contents, prior : {"absent", "file", "dir"},
                  fault : {"none", "open", "write"}, at : 0..MaxContentLen,
                  unlink_denied : BOOLEAN]
    IN /\ event \in {e \in Saves :
                        /\ e.at <= Len(e.content)
                        /\ e.fault # "write" => e.at = 0
                        /\ e.prior = "dir" => e.fault = "open"
                        /\ e.unlink_denied => e.prior = "file"}
       /\ extracted = AtPath(event.prior,
                             IF event.prior = "file" THEN <<"old">> ELSE <<>>)
       /\ pc = "save"
       /\ header = [present |-> FALSE, value |-> <<>>]
       /\ stream = <<>>
       /\ net = PlainCall
       /\ pos = 0
       /\ strategy = "none"
       /\ first_chunk = <<>>
       /\ buffer = <<>>
       /\ video_chunks = <<>>
       /\ chunks = <<>>
       /\ outcome = NoOutcome

SpecSave == InitSave /\ [][WriteBytes \/ CleanUp]_vars

(***************************************************************************)
(* The legacy entry point, generate_video.py main, after cli.parse_args.   *)
(* `event` holds the parsed arguments and what the encoder and the network *)
(* will do; `extracted` holds the encoded images and the exit code.        *)
(***************************************************************************)
\* generate_video(a, b, c) called with three positional arguments: they are
\* bound in the order of the signature (prompt, model, img1_b64, img2_b64)
BindPositional(a, b, c) ==
    [prompt |-> a, model |-> b, img1_b64 |-> Str(c), img2_b64 |-> NoneStr]

\* encoder.encode_image_to_base64(args.image1), then (args.image2);
\* InvalidImageError ends main with sys.exit(1)
LegacyEncode ==
    /\ pc = "legacy_encode"
    /\ IF event.bad_image \in 1..2
       THEN /\ pc' = "exited"
            /\ extracted' = [extracted EXCEPT !.exit_code = 1]
       ELSE /\ pc' = "legacy_call"
            /\ extracted' = [extracted EXCEPT !.img1_b64 = event.image1,
                                              !.img2_b64 = event.image2]
    /\ UNCHANGED <<net, header, stream, pos, strategy, first_chunk, buffer,
                   video_chunks, chunks, outcome, event>>

\* api_client.generate_video(img1_b64, img2_b64, args.prompt_text)
LegacyCall ==
    /\ pc = "legacy_call"
    /\ pc' = "start"
    /\ net' = NetStart(event.connect, 200, "eof",
                       BindPositional(extracted.img1_b64, extracted.img2_b64,
                                      event.prompt_text))
    /\ UNCHANGED <<header, stream, pos, strategy, first_chunk, buffer,
                   video_chunks, chunks, outcome, event, extracted>>

\* parsed arguments: two images by their base64 text, the stripped text of
\* the prompt file, which parse_args has found not empty
InitLegacy ==
    LET Images == {"aGk=", "b2s="}
        Runs == [image1 : Images, image2 : Images, prompt_text : {"p", "q q"},
                 bad_image : 0..2, connect : {"ok", "timeout", "error"}]
    IN /\ event \in Runs
       /\ extracted = [img1_b64 |-> "", img2_b64 |-> "", exit_code |-> 0]
       /\ pc = "legacy_encode"
       /\ header = [present |-> FALSE, value |-> <<>>]
       /\ stream = <<>>
       /\ net = PlainCall
       /\ pos = 0
       /\ strategy = "none"
       /\ first_chunk = <<>>
       /\ buffer = <<>>
       /\ video_chunks = <<>>
       /\ chunks = <<>>
       /\ outcome = NoOutcome

SpecLegacy == InitLegacy /\ [][LegacyEncode \/ LegacyCall \/ SendRequest]_vars

(***************************************************************************)
(* Properties.  Shared vocabulary first: the body seen as one text, its    *)
(* complete lines, and what a single line contributes.                     *)
(***************************************************************************)
Done == pc = "done"

\* the chunks 1..n of a sequence, concatenated in arrival order
RECURSIVE ConcatUpTo(_, _)
ConcatUpTo(s, n) == IF n = 0 THEN <<>> ELSE ConcatUpTo(s, n - 1) \o s[n]

RawBody == ConcatUpTo(stream, Len(stream))

\* the body as the text parsers read it
BodyText == ConcatUpTo([i \in 1..Len(stream) |-> IterText(stream[i])], Len(stream))

\* the newline-terminated lines of the body, and the text after the last
\* newline
CompleteLines == AllButLast(SplitLines(BodyText))
TrailingText == Last(SplitLines(BodyText))

ModeOf(s) == IF s = "SSE" THEN "sse" ELSE "json"

\* the remainder of a data: line
DataRemainder(line) == Strip(Tail(Strip(line)))
IsDataLine(line) == StartsWith(Strip(line), "data:")

\* the text of a line that goes to json.loads in a mode, <<>> if none does
JsonTextOf(line, mode) ==
    IF mode = "json" THEN Strip(line)
    ELSE IF IsDataLine(line) /\ DataRemainder(line) # <<"[DONE]">>
    THEN DataRemainder(line)
    ELSE <<>>

\* a line whose JSON text does not parse
Malformed(line, mode) ==
    /\ IF mode = "json" THEN Strip(line) # <<>>
       ELSE IsDataLine(line) /\ DataRemainder(line) # <<"[DONE]">>
    /\ ~JsonLoads(JsonTextOf(line, mode)).ok

\* a line whose JSON text parses to a value the extractor gets bytes from
Yields(line, mode) ==
    /\ JsonLoads(JsonTextOf(line, mode)).ok
    /\ ExtractVideoFromJson(JsonLoads(JsonTextOf(line, mode)).v).k = "ret"
    /\ Truthy(ExtractVideoFromJson(JsonLoads(JsonTextOf(line, mode)).v).r)

BytesOf(line, mode) ==
    IF Yields(line, mode)
    THEN ExtractVideoFromJson(JsonLoads(JsonTextOf(line, mode)).v).r.bytes
    ELSE <<>>

\* a line that is ignored, is the sentinel, is malformed, or is an object
\* the extractor handles without raising
Benign(line, mode) ==
    \/ ~JsonLoads(JsonTextOf(line, mode)).ok
    \/ /\ JsonLoads(JsonTextOf(line, mode)).v.t = "obj"
       /\ ExtractVideoFromJson(JsonLoads(JsonTextOf(line, mode)).v).k = "ret"

\* the bytes of the yielding lines, in line order
RECURSIVE PayloadOf(_, _)
PayloadOf(lines, mode) ==
    IF lines = <<>> THEN <<>>
    ELSE BytesOf(Head(lines), mode) \o PayloadOf(Tail(lines), mode)

AllDecodable == \A i \in 1..Len(stream) : Utf8Decode(stream[i]).ok

\* ---------------------------------------------------------------- C1
\* C1: for every content-type value, compared case-insensitively, the
\* strategy is the first matching rule of: contains "octet-stream" or
\* starts with "video/" -> Binary; contains "text/event-stream" -> SSE;
\* contains "json" -> NDJSON; anything else, a missing header included ->
\* Unknown.
HasFolded(value, atom) == \E i \in 1..Len(value) : LowerAtom(value[i]) = atom
RuleBinary(h) ==
    h.present /\ (HasFolded(h.value, "octet-stream")
                  \/ (h.value # <<>> /\ LowerAtom(h.value[1]) = "video/"))
RuleSse(h) == h.present /\ HasFolded(h.value, "text/event-stream")
RuleJson(h) == h.present /\ HasFolded(h.value, "json")

C1_ClassifierRules ==
    pc # "request" =>
        /\ RuleBinary(header) => strategy = "Binary"
        /\ ~RuleBinary(header) /\ RuleSse(header) => strategy = "SSE"
        /\ ~RuleBinary(header) /\ ~RuleSse(header) /\ RuleJson(header)
               => strategy = "NDJSON"
        /\ ~RuleBinary(header) /\ ~RuleSse(header) /\ ~RuleJson(header)
               => strategy = "Unknown"

\* an upper-case event-stream value that also contains "json" went to SSE
C1_Witness ==
    /\ pc # "request"
    /\ header = [present |-> TRUE, value |-> <<"TEXT/EVENT-STREAM", "json">>]
    /\ strategy = "SSE"

\* ---------------------------------------------------------------- C2
\* C2: for a stream of Unknown content type whose first chunk is text
\* starting with "data:" (resp. "{"), the auto-detect parser returns what
\* the SSE (resp. NDJSON) algorithm returns over the whole stream, also
\* when no further chunk arrives, whenever that algorithm extracts at least
\* one chunk.  Stated for streams all of whose chunks decode as text.
AutoMode == IF Detect(stream[1]) = "unknown_sse" THEN "sse" ELSE "json"

C2_AutoEqualsTextAlgorithm ==
    ( /\ Done
      /\ strategy = "Unknown"
      /\ stream # <<>>
      /\ Detect(stream[1]) \in {"unknown_sse", "unknown_json"}
      /\ AllDecodable
      /\ ProcessLines(CompleteLines, <<>>, AutoMode).exc = "none"
      /\ ProcessLines(CompleteLines, <<>>, AutoMode).vc # <<>> )
    => outcome = Returned(Join(ProcessLines(CompleteLines, <<>>, AutoMode).vc))

\* ---------------------------------------------------------------- C3
\* C3: in the auto-detect parser, if the chosen text strategy extracts zero
\* chunks, the result is the raw concatenation of all chunks of the stream
\* in arrival order, the chunks the text strategy consumed included.
\* Stated for streams the text strategy reads to the end (every chunk
\* decodes, no line makes the extractor raise).
C3_ZeroChunksGivesWholeBody ==
    ( /\ Done
      /\ strategy = "Unknown"
      /\ stream # <<>>
      /\ Detect(stream[1]) \in {"unknown_sse", "unknown_json"}
      /\ AllDecodable
      /\ \A i \in 1..Len(CompleteLines) : Benign(CompleteLines[i], AutoMode)
      /\ PayloadOf(CompleteLines, AutoMode) = <<>> )
    => outcome = Returned(RawBody)

\* ---------------------------------------------------------------- C4
\* C4: SSE and NDJSON parsers absorb per-item failures: if at least one
\* line of the stream yields payload bytes, the parser returns the
\* concatenation of the yielding lines' bytes, whatever the other lines
\* contain.
C4_PerItemFailuresAbsorbed ==
    ( /\ Done
      /\ strategy \in {"SSE", "NDJSON"}
      /\ \E i \in 1..Len(CompleteLines) : Yields(CompleteLines[i], ModeOf(strategy)) )
    => outcome = Returned(PayloadOf(CompleteLines, ModeOf(strategy)))

\* ---------------------------------------------------------------- C5
\* C5: the extractor answers "nothing found" only after every candidate
\* field and every nested location is exhausted: a present data field
\* whose value does not decode does not end the search.  Stated for events
\* of the expected shape in which no URL field holds a URL.
DataFieldSet == {possible_fields[i] : i \in 1..Len(possible_fields)} \ {"content"}
UrlFieldSet == {url_fields[i] : i \in 1..Len(url_fields)}

IsObj(v) == v.t = "obj"
Has(v, key) == key \in DOMAIN v.f

\* choices is absent, or a list of objects whose delta and message are
\* objects
ExpectedShape(ev) ==
    /\ IsObj(ev)
    /\ Has(ev, "choices") =>
         /\ ev.f["choices"].t = "arr"
         /\ \A i \in 1..Len(ev.f["choices"].e) :
              LET c == ev.f["choices"].e[i] IN
              /\ IsObj(c)
              /\ Has(c, "delta") => IsObj(c.f["delta"])
              /\ Has(c, "message") => IsObj(c.f["message"])

\* the objects the search visits: delta and message of every choice, and
\* the top level
Locations(ev) ==
    {ev} \cup
    (IF Has(ev, "choices")
     THEN UNION {{c.f[k] : k \in {"delta", "message"} \cap DOMAIN c.f} :
                 c \in {ev.f["choices"].e[i] : i \in 1..Len(ev.f["choices"].e)}}
     ELSE {})

HoldsUrl(o) == \E k \in UrlFieldSet \cap DOMAIN o.f : ExtractUrlFromHtml(o.f[k]).found
HoldsDecodableData(o) ==
    \E k \in DataFieldSet \cap DOMAIN o.f : ~DecodeVideoData(o.f[k]).none

C5_NothingFoundOnlyWhenExhausted ==
    ( /\ pc = "extracted"
      /\ ExpectedShape(event)
      /\ \A o \in Locations(event) : ~HoldsUrl(o)
      /\ extracted = Ret(NoneVal) )
    => \A o \in Locations(event) : ~HoldsDecodableData(o)

\* ---------------------------------------------------------------- C6
\* C6: in the SSE and NDJSON parsers the returned payload is the
\* concatenation of the bytes extracted from the lines in the order the
\* lines arrived: nothing is reordered, dropped or deduplicated.
C6_PayloadInArrivalOrder ==
    (Done /\ strategy \in {"SSE", "NDJSON"} /\ outcome.kind = "return")
    => outcome.data = PayloadOf(CompleteLines, ModeOf(strategy))

\* the same event twice contributes twice
C6_Witness ==
    /\ Done
    /\ strategy = "SSE"
    /\ stream = << <<"data:", " ", EvHi, "\n">>, <<"data:", " ", EvHi, "\n">> >>
    /\ outcome = Returned(<<"h", "i", "h", "i">>)

\* ---------------------------------------------------------------- C7
\* C7: the binary parser returns the concatenation of every chunk of the
\* byte-chunk sequence, in arrival order, unaltered.
C7_BinaryConcatenation ==
    (Done /\ strategy = "Binary" /\ stream # <<>>) => outcome = Returned(RawBody)

\* chunks [AB, CD] gave ABCD
C7_Witness ==
    /\ Done
    /\ strategy = "Binary"
    /\ stream = << <<"A", "B">>, <<"C", "D">> >>
    /\ outcome = Returned(<<"A", "B", "C", "D">>)

\* ---------------------------------------------------------------- C8
\* C8: when the content type classifies as Binary and the stream yields
\* zero chunks, the call fails with a StreamingError, not an APIError and
\* not an empty payload.
C8_EmptyBinaryIsStreamingError ==
    (Done /\ strategy = "Binary" /\ stream = <<>>) => outcome.kind = "StreamingError"

C8_Witness ==
    /\ Done
    /\ strategy = "Binary"
    /\ stream = <<>>
    /\ outcome = Failed("StreamingError", "No video data received from API")

\* ---------------------------------------------------------------- C9
\* C9: in the SSE parser a data: line whose remainder is not valid JSON is
\* skipped without raising, and every later valid data: line still
\* contributes its bytes.  Stated for streams whose other lines are benign.
C9_MalformedSseLineSkipped ==
    ( /\ Done
      /\ strategy = "SSE"
      /\ \E i \in 1..Len(CompleteLines) : Malformed(CompleteLines[i], "sse")
      /\ \A i \in 1..Len(CompleteLines) : Benign(CompleteLines[i], "sse") )
    => outcome = IF PayloadOf(CompleteLines, "sse") = <<>>
                 THEN Failed("StreamingError", "No video data found in SSE stream")
                 ELSE Returned(PayloadOf(CompleteLines, "sse"))

\* "data: not-json" followed by a valid event gave the event's bytes
C9_Witness ==
    /\ Done
    /\ strategy = "SSE"
    /\ stream = << <<"data:", " ", "not-json", "\n", "data:", " ", EvOk, "\n">> >>
    /\ outcome = Returned(<<"o", "k">>)

\* ---------------------------------------------------------------- C10
\* C10: an SSE event whose data: line is ended by the end of the stream
\* rather than by a newline is still processed: its bytes are the last
\* part of the result.  Stated for streams whose complete lines are benign.
C10_UnterminatedEventProcessed ==
    ( /\ Done
      /\ strategy = "SSE"
      /\ \A i \in 1..Len(CompleteLines) : Benign(CompleteLines[i], "sse")
      /\ Yields(TrailingText, "sse") )
    => outcome = Returned(PayloadOf(CompleteLines, "sse") \o BytesOf(TrailingText, "sse"))


\* ---------------------------------------------------------------- C11
\* C11: the SSE parser and the NDJSON parser raise StreamingError when the
\* stream is exhausted and zero chunks were extracted; neither returns an
\* empty payload as a success.  The parser's own error is told from the
\* empty-payload check of generate_video by its message.
NoDataMessage(s) ==
    IF s = "SSE" THEN "No video data found in SSE stream"
    ELSE "No video data found in JSON stream"

\* the loop ended by exhaustion, not by an exception
Exhausted == outcome.msg # "Unexpected error during video generation"

C11_NoEmptySuccess ==
    (Done /\ strategy \in {"SSE", "NDJSON"})
    => /\ outcome.msg # "No video data received from API"
       /\ outcome.kind = "return" => outcome.data # <<>>
       /\ (Exhausted /\ video_chunks = <<>>)
              => outcome = Failed("StreamingError", NoDataMessage(strategy))

\* an NDJSON body with one malformed line ended in the parser's error
C11_Witness ==
    /\ Done
    /\ strategy = "NDJSON"
    /\ stream = << <<"not-json", "\n">> >>
    /\ video_chunks = <<>>
    /\ outcome = Failed("StreamingError", "No video data found in JSON stream")


\* ---------------------------------------------------------------- C12
\* C12: in the SSE parser a data: line whose trimmed remainder is [DONE] is
\* not an error and contributes nothing: the result is that of the stream
\* without its [DONE] lines, and the chunks extracted before the line are
\* kept.  Stated for streams whose other lines are benign.
IsDoneLine(line) == IsDataLine(line) /\ DataRemainder(line) = <<"[DONE]">>
IsNotDoneLine(line) == ~IsDoneLine(line)
WithoutDone(lines) == SelectSeq(lines, IsNotDoneLine)

IsBlank(line) == Strip(line) = <<>>

C13_NdjsonEveryLine ==
    ( /\ Done
      /\ strategy = "NDJSON"
      /\ \A i \in 1..Len(CompleteLines) : Benign(CompleteLines[i], "json") )
    => outcome = IF PayloadOf(CompleteLines, "json") = <<>>
                 THEN Failed("StreamingError", "No video data found in JSON stream")
                 ELSE Returned(PayloadOf(CompleteLines, "json"))

\* lines [malformed, blank, {"data": base64(ok)}] gave the bytes ok
C13_Witness ==
    /\ Done
    /\ strategy = "NDJSON"
    /\ stream = << <<"not-json", "\n", "\n", EvOk, "\n">> >>
    /\ outcome = Returned(<<"o", "k">>)


\* ---------------------------------------------------------------- C14
\* C14: when one object holds both a URL field whose value is recognised
\* as a URL that dereferences successfully and an inline data field, the
\* extractor returns the dereferenced bytes, never the inline field's
\* bytes.  Stated for top-level objects without choices.
LiveUrlIn(o, k) ==
    /\ ExtractUrlFromHtml(o.f[k]).found
    /\ ~DownloadVideoFromUrl(ExtractUrlFromHtml(o.f[k]).url).none

C14_UrlBeforeInline ==
    ( /\ pc = "extracted"
      /\ IsObj(event)
      /\ ~Has(event, "choices")
      /\ \E k \in UrlFieldSet \cap DOMAIN event.f : LiveUrlIn(event, k)
      /\ DataFieldSet \cap DOMAIN event.f # {} )
    => \E k \in UrlFieldSet \cap DOMAIN event.f :
          /\ LiveUrlIn(event, k)
          /\ extracted = Ret(DownloadVideoFromUrl(ExtractUrlFromHtml(event.f[k]).url))


\* ---------------------------------------------------------------- C15
\* C15: for an object with a choices array the extractor visits the
\* entries in array order, delta before message within an entry; the first
\* location that yields bytes determines the result, and a location that
\* yields nothing does not stop the search of the later ones.  Stated for
\* events of the expected shape.
SubObjects(c) ==
    (IF Has(c, "delta") THEN <<c.f["delta"]>> ELSE <<>>)
    \o (IF Has(c, "message") THEN <<c.f["message"]>> ELSE <<>>)

\* delta and message of every entry, in the order of the search
RECURSIVE LocationSeq(_)
LocationSeq(choices) ==
    IF choices = <<>> THEN <<>>
    ELSE SubObjects(Head(choices)) \o LocationSeq(Tail(choices))

\* the search of one location gives bytes
LocationYields(o) == SearchObject(o).k = "ret" /\ ~SearchObject(o).r.none

FirstYielding(locs) ==
    locs[Least({i \in 1..Len(locs) : LocationYields(locs[i])})]

C15_ChoicesInOrder ==
    ( /\ pc = "extracted"
      /\ ExpectedShape(event)
      /\ Has(event, "choices")
      /\ \E i \in 1..Len(LocationSeq(event.f["choices"].e)) :
             LocationYields(LocationSeq(event.f["choices"].e)[i]) )
    => extracted = SearchObject(FirstYielding(LocationSeq(event.f["choices"].e)))


\* ---------------------------------------------------------------- C16
\* C16: URL extraction from a field value: a value that is not text gives
\* no match; text containing a video tag with a src attribute gives that
\* attribute's value, before the prefix rule is tried; otherwise text
\* starting with "http" gives the whole text; any other text gives no
\* match.  <video src='http://x/y.mp4'> gives http://x/y.mp4 and
\* "not a url" gives no match.
C16_UrlExtraction ==
    pc = "url_done" =>
        /\ event.t # "str" => extracted = NoUrl
        /\ (event.t = "str" /\ TagHits(event.s) # {})
              => \E p \in TagHits(event.s) : extracted = SrcAt(event.s, p[2])
        /\ (event.t = "str" /\ TagHits(event.s) = {} /\ StartsWith(event.s, "http"))
              => extracted = FoundUrl(event.s)
        /\ (event.t = "str" /\ TagHits(event.s) = {} /\ ~StartsWith(event.s, "http"))
              => extracted = NoUrl
        /\ event = VideoTag => extracted = FoundUrl(UrlLive)
        /\ event = JStr(<<"not", " ", "a", " ", "url">>) => extracted = NoUrl

\* a text that starts with "http" and holds a tag gave the tag's src
C16_Witness ==
    /\ pc = "url_done"
    /\ event = JStr(<<"http">> \o VideoTag.s)
    /\ extracted = FoundUrl(UrlLive)


\* ---------------------------------------------------------------- C17
\* C17: URL dereference returns the body only for status 200; for another
\* status, a timeout or a transport failure it returns no result and does
\* not raise, so the enclosing stream parser goes on to the next event.
\* Stated over streams whose complete lines are events with a known
\* contribution, one of them a URL that does not dereference.
DerefEvents == {EvUrl, EvGone, EvSlow, EvHi, EvOk}
DeadUrlEvents == {EvGone, EvSlow}

\* what each event is to contribute: the body of the live URL (status
\* 200), nothing for the URL that answers 404 or times out
Contribution(doc) ==
    CASE doc = EvUrl -> <<"V", "1">>
      [] doc = EvHi -> <<"h", "i">>
      [] doc = EvOk -> <<"o", "k">>
      [] OTHER -> <<>>

EventOf(line, mode) == JsonTextOf(line, mode)[1]
IsDerefEvent(line, mode) ==
    Len(JsonTextOf(line, mode)) = 1 /\ EventOf(line, mode) \in DerefEvents

RECURSIVE Contributions(_, _)
Contributions(lines, mode) ==
    IF lines = <<>> THEN <<>>
    ELSE Contribution(EventOf(Head(lines), mode)) \o Contributions(Tail(lines), mode)

PadCount(s) ==
    IF Len(s) >= 2 /\ s[Len(s)] = "=" /\ s[Len(s) - 1] = "=" THEN 2
    ELSE IF Len(s) >= 1 /\ s[Len(s)] = "=" THEN 1
    ELSE 0

IsStandardBase64(s) ==
    /\ Len(s) % 4 = 0
    /\ \A i \in 1..(Len(s) - PadCount(s)) : IsB64Char(s[i])

\* the three bytes of a quad, as one number
QuadValue(s) ==
    B64Index(s[1]) * 262144 + B64Index(s[2]) * 4096
    + (IF s[3] = "=" THEN 0 ELSE B64Index(s[3]) * 64)
    + (IF s[4] = "=" THEN 0 ELSE B64Index(s[4]))

QuadBytes(s) ==
    <<Chr(QuadValue(s) \div 65536)>>
    \o (IF s[3] = "=" THEN <<>> ELSE <<Chr((QuadValue(s) \div 256) % 256)>>)
    \o (IF s[4] = "=" THEN <<>> ELSE <<Chr(QuadValue(s) % 256)>>)

RECURSIVE StandardDecoding(_)
StandardDecoding(s) ==
    IF s = <<>> THEN <<>>
    ELSE QuadBytes(SubSeq(s, 1, 4)) \o StandardDecoding(SubSeq(s, 5, Len(s)))

\* valid hex as bytes.fromhex has it, and the bytes of its digit pairs
IsHexText(s) == FromHex(s, <<>>).ok
NoSpace(a) == ~IsSpace(a)
RECURSIVE PairBytes(_)
PairBytes(d) ==
    IF Len(d) < 2 THEN <<>>
    ELSE <<Chr(HexValue(d[1]) * 16 + HexValue(d[2]))>> \o PairBytes(Tail(Tail(d)))
HexDecoding(s) == PairBytes(SelectSeq(s, NoSpace))

C18_InlineDecode ==
    pc = "decoded" =>
        /\ event.t = "bytes" => extracted = Some(event.b)
        /\ (event.t = "str" /\ IsStandardBase64(Explode(event.s)))
              => extracted = Some(StandardDecoding(Explode(event.s)))
        /\ (event.t = "str" /\ ~IsStandardBase64(Explode(event.s))
               /\ IsHexText(Explode(event.s)))
              => extracted = Some(HexDecoding(Explode(event.s)))
        /\ (event.t = "str" /\ ~IsStandardBase64(Explode(event.s))
               /\ ~IsHexText(Explode(event.s)))
              => extracted = NoneVal


\* ---------------------------------------------------------------- C19
\* C19: round trip: for every byte sequence accepted as an image, the
\* base64 text produced by encode_image_to_base64, passed to the inline
\* decoder, gives back exactly the original bytes.
BytesAsAtoms(d) == [i \in 1..Len(d) |-> Chr(d[i])]

C19_RoundTrip ==
    pc = "roundtrip" => extracted = Some(BytesAsAtoms(event.data))

\* the file content "hi" was encoded as aGk= and decoded to "hi"
C19_Witness ==
    /\ pc = "roundtrip"
    /\ event.data = <<104, 105>>
    /\ buffer = <<"a", "G", "k", "=">>
    /\ extracted = Some(<<"h", "i">>)


\* ---------------------------------------------------------------- C20
\* C20: in the auto-detect parser, when the first chunk starts with a
\* known container signature (MP4 ftyp, RIFF/AVI, Matroska/WebM EBML), the
\* result is the first chunk followed by all remaining chunks in order,
\* with no text or JSON interpretation of any chunk.
ContainerSignatures ==
    {"\\x00\\x00\\x00\\x18ftypmp4", "\\x00\\x00\\x00\\x1cftypiso", "RIFF",
     "\\x1aE\\xdf\\xa3"}

C20_SignatureMeansBinary ==
    ( /\ Done
      /\ strategy = "Unknown"
      /\ stream # <<>>
      /\ stream[1][1] \in ContainerSignatures )
    => /\ outcome = Returned(RawBody)
       /\ video_chunks = <<>>
       /\ buffer = <<>>

\* an MP4 first chunk, then a chunk that is an NDJSON line: both returned raw
C20_Witness ==
    /\ Done
    /\ strategy = "Unknown"
    /\ stream = << <<"\\x00\\x00\\x00\\x18ftypmp4", "A", "B">>, <<EvOk, "\n">> >>
    /\ video_chunks = <<>>
    /\ outcome = Returned(<<"\\x00\\x00\\x00\\x18ftypmp4", "A", "B", EvOk, "\n">>)


\* ---------------------------------------------------------------- C21
\* C21: in the auto-detect parser, when the first chunk has no known
\* signature and cannot be decoded as text, the result is the raw
\* concatenation of all chunks, the first included; the same holds when
\* the first chunk is text that starts with neither data: nor {.
HasBadByte(chunk) == \E i \in 1..Len(chunk) : chunk[i] = "\\xff"
PlainText(chunk) ==
    /\ ~HasBadByte(chunk)
    /\ ~StartsWith(Strip(chunk), "data:")
    /\ ~BeginsWithBrace(Strip(chunk))

C21_NoShapeMeansRaw ==
    ( /\ Done
      /\ strategy = "Unknown"
      /\ stream # <<>>
      /\ stream[1][1] \notin ContainerSignatures
      /\ HasBadByte(stream[1]) \/ PlainText(stream[1]) )
    => /\ outcome = Returned(RawBody)
       /\ video_chunks = <<>>

\* an undecodable first chunk, then an SSE event: both returned raw
C21_Witness ==
    /\ Done
    /\ strategy = "Unknown"
    /\ stream = << <<"\\xff">>, <<"data:", " ", EvHi, "\n">> >>
    /\ outcome = Returned(<<"\\xff", "data:", " ", EvHi, "\n">>)

(***************************************************************************)
(* The main request.                                                       *)
(***************************************************************************)
\* the server answered, with a status of 400 or more
ErrorResponse == net.connect = "ok" /\ net.status_code >= 400

\* no parser has touched the response
NoParserRan ==
    /\ strategy = "none"
    /\ first_chunk = <<>>
    /\ buffer = <<>>
    /\ video_chunks = <<>>
    /\ chunks = <<>>

\* C22: on a response status of 400 or more generate_video reads the whole
\* body and then raises an APIError that carries the status code and the
\* text of the body; no parser, and so no extractor, runs on that response
C22_ErrorStatus ==
    /\ ErrorResponse => NoParserRan
    /\ Done /\ ErrorResponse =>
          /\ pos = Len(stream)
          /\ outcome.kind = "APIError"
          /\ net.ending = "eof" =>
                outcome = StatusFailure(net.status_code, BodyText)

\* C22 witness: an event stream that would have yielded a payload comes
\* with status 503, and the call has raised with the body in the message
C22_Witness ==
    /\ Done
    /\ net.status_code = 503
    /\ net.ending = "eof"
    /\ HeaderContentType(header) = <<"text/event-stream">>
    /\ stream = << <<"data:", " ", EvHi, "\n">>, <<BadByte>> >>
    /\ outcome.status = 503
    /\ outcome.body = <<"data:", " ", EvHi, "\n", "\\ufffd">>

\* C23: a timeout or a connection failure on the main request, while it is
\* opened or while the body is read, makes generate_video raise APIError:
\* never StreamingError, never a payload made of the chunks read so far
C23_TransportFailure ==
    /\ net.raised # "none" =>
          Done /\ outcome.kind = "APIError" /\ outcome.data = <<>>
    /\ Done /\ net.connect # "ok" => net.raised = net.connect
    /\ Done /\ net.connect = "ok" /\ net.ending # "eof" =>
          /\ outcome.kind # "return"
          /\ outcome.kind = "StreamingError" => net.raised = "none"

\* C23 witness: the stream broke off with a timeout after a parser had
\* extracted a payload from the first chunk, and the call raised APIError
C23_Witness ==
    /\ Done
    /\ net.raised = "timeout"
    /\ video_chunks # <<>>
    /\ pos = Len(stream)
    /\ outcome = Failed("APIError", "Request timeout")

\* C24: a call of generate_video sends exactly one POST whatever its
\* outcome; nothing is sent again after an error status, a timeout, a
\* connection failure or a parse failure
C24_OnePost ==
    /\ pc = "start" => net.sent = <<>>
    /\ pc # "start" => Len(net.sent) = 1 /\ net.sent[1].method = "POST"

\* C24 witness: the connection broke while the body was read, the call has
\* ended, and one POST was sent
C24_Witness ==
    /\ Done
    /\ Len(net.sent) = 1
    /\ net.raised = "error"
    /\ net.connect = "ok"
    /\ pos > 0

\* C25: on every exit path of generate_video the streaming response and the
\* client are closed when control is back at the caller
C25_ClosedOnExit ==
    Done =>
        /\ net.client = "closed"
        /\ net.response = IF net.connect = "ok" THEN "closed" ELSE "none"

\* C25 witness: a parser raised on a line of the stream, the call ended in
\* StreamingError, and both resources are closed
C25_Witness ==
    /\ Done
    /\ outcome.kind = "StreamingError"
    /\ pos > 0
    /\ net.client = "closed"
    /\ net.response = "closed"

\* the images that make an entry: given, and not the empty string
Supplied(args) ==
    SelectSeq(<<args.img1_b64, args.img2_b64>>,
              LAMBDA img : ~img.none /\ img.s # "")

\* C26: the request body has stream true, the model given, and one user
\* message whose content is the image_url entries of the images supplied,
\* the first before the second, and then exactly one text entry with the
\* prompt, which is the last entry
C26_RequestBody ==
    pc # "start" =>
        LET body == net.sent[1].json
            content == body.messages[1].content
            images == Supplied(net.args)
        IN /\ body.stream = TRUE
           /\ body.model = net.args.model
           /\ Len(body.messages) = 1
           /\ body.messages[1].role = "user"
           /\ Len(content) = Len(images) + 1
           /\ \A i \in 1..Len(images) :
                 /\ content[i].type = "image_url"
                 /\ content[i].url = "data:image/jpeg;base64," \o images[i].s
           /\ content[Len(content)].type = "text"
           /\ content[Len(content)].text = net.args.prompt

\* C26 witness: a request with two images has been sent
C26_Witness ==
    /\ pc # "start"
    /\ Len(Supplied(net.args)) = 2
    /\ Len(net.sent[1].json.messages[1].content) = 3
    /\ net.args.prompt = "p"

(***************************************************************************)
(* The model selector.                                                     *)
(***************************************************************************)
\* select_model has returned a model ID
SelectReturned == pc = "selected" /\ extracted.exc = "none"

\* a manual model is given: a model ID, not None and not the empty string
ManualGiven == ~event.manual_model.none /\ event.manual_model.s # ""

\* C27: every model ID select_model returns is an ID of the catalog, an
\* auto-selected one as well as a manual one
C27_ReturnedIdInCatalog ==
    SelectReturned => extracted.model_id \in event.models

\* C28: with a manual model select_model returns exactly that ID when the
\* catalog has it and raises ModelNotFoundError when it has not, whatever
\* the mode, the image count and the orientation
C28_ManualModel ==
    pc = "selected" /\ ManualGiven =>
        extracted = IF event.manual_model.s \in event.models
                    THEN Selected(event.manual_model.s)
                    ELSE SelectRaise("ModelNotFoundError")

\* C28 witness: a manual model of the catalog has been returned for a mode
\* and an image count the auto-selection refuses
C28_Witness ==
    /\ SelectReturned
    /\ ManualGiven
    /\ event.mode = "r2v"
    /\ event.image_count = 3
    /\ extracted.model_id = "veo_r2v"

\* the portrait variant of a model ID when the orientation is portrait
Oriented(orientation, landscape, portrait) ==
    Selected(IF orientation = "portrait" THEN portrait ELSE landscape)

\* C29: without a manual model select_model is a total decision table: t2v
\* gives the fast T2V model whatever the image count, i2v gives the
\* single-image model for 1 image and the first-last-frame model for 2,
\* each in its portrait variant when the orientation is portrait; any other
\* image count of i2v and any other mode raise ValueError
C29_DecisionTable ==
    pc = "selected" /\ ~ManualGiven =>
        extracted =
            CASE event.mode = "t2v" ->
                   Oriented(event.orientation, "veo_3_1_t2v_fast_landscape",
                            "veo_3_1_t2v_fast_portrait")
              [] event.mode = "i2v" /\ event.image_count = 1 ->
                   Oriented(event.orientation, "veo_3_1_i2v_s_landscape",
                            "veo_3_1_i2v_s_portrait")
              [] event.mode = "i2v" /\ event.image_count = 2 ->
                   Oriented(event.orientation, "veo_3_1_i2v_s_fast_fl",
                            "veo_3_1_i2v_s_fast_portrait_fl")
              [] OTHER -> SelectRaise("ValueError")

\* C29 witness: two images in portrait orientation have selected the
\* portrait first-last-frame model
C29_Witness ==
    /\ SelectReturned
    /\ ~ManualGiven
    /\ event.mode = "i2v"
    /\ event.image_count = 2
    /\ event.orientation = "portrait"
    /\ extracted.model_id = "veo_3_1_i2v_s_fast_portrait_fl"

(***************************************************************************)
(* The commands.                                                           *)
(***************************************************************************)
\* the invocation fails one of the validations: the image count of i2v, the
\* empty prompt, the manual model the catalog does not have
ValidationFailure ==
    \/ event.command = "i2v" /\ event.images \notin 1..2
    \/ (IF event.prompt.file THEN Strip(event.prompt.text)
                             ELSE event.prompt.text) = <<>>
    \/ /\ ~event.model.none
       /\ event.model.s # ""
       /\ event.model.s \notin event.models

\* C30: in t2v and i2v a validation failure (image count outside 1..2,
\* empty prompt, manual model not in the catalog) ends the command with a
\* non-zero exit before any image is encoded and before generate_video is
\* called: no request is sent, no file is written
C30_ValidationAborts ==
    ValidationFailure =>
        /\ extracted.encoded = 0
        /\ extracted.requests = 0
        /\ extracted.files = 0
        /\ pc = "exited" => extracted.exit_code # 0

\* C30 witness: i2v with two good images, a prompt and a manual model the
\* catalog does not have has exited with code 1 and nothing encoded
C30_Witness ==
    /\ pc = "exited"
    /\ event.command = "i2v"
    /\ event.images = 2
    /\ event.bad_image = 0
    /\ event.api_ok
    /\ event.model = Str("nonexistent_model")
    /\ extracted.prompt_text = <<"p">>
    /\ extracted.exit_code = 1
    /\ extracted.encoded = 0

(***************************************************************************)
(* The save.                                                               *)
(***************************************************************************)
\* C31: save_video_stream either writes the whole content to the output
\* path or, when the write fails, removes what is at the path and raises
\* SaveError, so that nothing exists at the path after a failed save
C31_SaveAllOrNothing ==
    pc = "save_done" =>
        \/ /\ extracted.exc = "none"
           /\ extracted.kind = "file"
           /\ extracted.data = event.content
        \/ /\ extracted.exc = "SaveError"
           /\ extracted.kind = "absent"

(***************************************************************************)
(* Line buffering and chunk boundaries.                                    *)
(***************************************************************************)
\* the text of the chunks read so far, as one piece
TextSoFar ==
    ConcatUpTo([i \in 1..Len(stream) |-> IterText(stream[i])], pos)

\* what the loop body does with that text when it arrives as a single chunk
OneChunk == ChunkStep(<<>>, <<>>, TextSoFar, ModeOf(strategy))

\* C32: the line buffering of the SSE and NDJSON parsers does not depend on
\* the chunk boundaries: after any number of chunks the lines processed,
\* the payload pieces collected and the text kept are those of the same
\* text arriving as one chunk, and so is the outcome of the call
C32_ChunkingIrrelevant ==
    strategy \in {"SSE", "NDJSON"} =>
        /\ pc \in {"sse", "json"} =>
              /\ OneChunk.exc = "none"
              /\ buffer = OneChunk.buffer
              /\ video_chunks = OneChunk.vc
        /\ Done /\ OneChunk.exc # "none" =>
              outcome = AfterParser(ParserRaise(OneChunk.exc, ""))
        /\ Done /\ OneChunk.exc = "none" =>
              \/ OneChunk.vc = <<>> /\ outcome.kind = "StreamingError"
              \/ OneChunk.vc # <<>> /\ outcome = Returned(Join(OneChunk.vc))

\* C32 witness: a data line arrived in two chunks, the newline in the
\* second, and the call has returned its payload
C32_Witness ==
    /\ Done
    /\ strategy = "SSE"
    /\ stream = << <<"data:", " ", EvOk>>, <<"\n">> >>
    /\ outcome = Returned(<<"o", "k">>)

(***************************************************************************)
(* Inline data fields after the URL fields.                                *)
(***************************************************************************)
\* the data fields in the order of their priority, content left out
DataOrder ==
    <<"video", "data", "file", "video_data", "video_content", "binary",
      "base64">>

\* no URL field of the object gave a result: absent, not recognised as a
\* URL, or dereferenced to nothing
NoUrlResult(o) == \A k \in UrlFieldSet \cap DOMAIN o.f : ~LiveUrlIn(o, k)

PresentData(o) == {i \in 1..Len(DataOrder) : Has(o, DataOrder[i])}

\* C33: when no URL field of a candidate object yielded a result, the
\* extractor decodes the first present data field in the order video, data,
\* file, video_data, video_content, binary, base64, and never decodes the
\* content field.  Stated for top-level objects without choices.
C33_DataFieldsInOrder ==
    ( /\ pc = "extracted"
      /\ IsObj(event)
      /\ ~Has(event, "choices")
      /\ NoUrlResult(event) )
    => extracted =
          IF PresentData(event) = {} THEN Ret(NoneVal)
          ELSE Ret(DecodeVideoData(event.f[DataOrder[Least(PresentData(event))]]))

(***************************************************************************)
(* The content-length header.                                              *)
(***************************************************************************)
\* C34: the outcome of generate_video does not depend on the content-length
\* header: the header is read in one place only, at the entry of
\* _parse_streaming_response, and every step taken there is the step the
\* same response takes without the header, whatever the header's value
C34_ContentLengthIgnored == [][pc = "request" => DispatchWith(NoHeader)]_vars

(***************************************************************************)
(* A chunk that does not decode, met by a text branch of the auto-detect   *)
(* parser.                                                                 *)
(***************************************************************************)
\* the auto-detect parser chose a text branch on the first chunk and a
\* later chunk is not valid UTF-8
LaterChunkUndecodable ==
    /\ strategy = "Unknown"
    /\ stream # <<>>
    /\ Detect(stream[1]) \in {"unknown_sse", "unknown_json"}
    /\ \E i \in 2..Len(stream) : ~Utf8Decode(stream[i]).ok

\* C35: in the auto-detect parser, when a later chunk fails text decoding
\* while the SSE or NDJSON branch is running, no received byte is lost: the
\* result is the payload extracted so far or the raw concatenation of all
\* chunks of the stream, those the text branch consumed included
C35_NoByteLost ==
    (Done /\ LaterChunkUndecodable /\ outcome.kind = "return") =>
        \/ outcome.data = RawBody
        \/ video_chunks # <<>> /\ outcome.data = Join(video_chunks)

(***************************************************************************)
(* The outcomes of a call.                                                 *)
(***************************************************************************)
\* C36: every call of generate_video ends in exactly one of three ways: it
\* returns a byte string that is not empty, it raises APIError, or it
\* raises StreamingError; no other exception type escapes, and an
\* auto-detect stream that ends after zero chunks gives StreamingError
C36_ThreeOutcomes ==
    /\ Done <=> outcome.kind # "none"
    /\ Done =>
          /\ outcome.kind \in {"return", "APIError", "StreamingError"}
          /\ outcome.kind = "return" <=> outcome.data # <<>>
    /\ (Done /\ strategy = "Unknown" /\ stream = <<>> /\ EndOfStream) =>
          outcome = Failed("StreamingError", "Empty response received")

\* C36 witness: an undeclared response without a single chunk has ended the
\* call in StreamingError
C36_Witness ==
    /\ Done
    /\ strategy = "Unknown"
    /\ stream = <<>>
    /\ net.ending = "eof"
    /\ outcome.kind = "StreamingError"

(***************************************************************************)
(* Saving comes after the payload.                                         *)
(***************************************************************************)
\* C37: in the t2v and i2v commands the output directory is made and the
\* file written only after generate_video returned a payload; when
\* generate_video raises, no directory and no file is made, "Video saved" is
\* not printed and the command exits non-zero; "Video saved" is printed only
\* after the save returned without error
C37_SaveAfterPayload ==
    /\ (extracted.dirs > 0 \/ extracted.files > 0 \/ extracted.saved_printed)
          => extracted.requests = 1 /\ event.api_ok
    /\ (extracted.requests = 1 /\ ~event.api_ok) =>
          /\ pc = "exited"
          /\ extracted.dirs = 0
          /\ extracted.files = 0
          /\ ~extracted.saved_printed
          /\ extracted.exit_code # 0
    /\ extracted.saved_printed =>
          /\ extracted.files = 1
          /\ event.mkdir_ok /\ event.save_ok
          /\ extracted.exit_code = 0

\* C37 witness: generate_video raised in a command that had passed its
\* validation, and the command has exited
C37_Witness ==
    /\ pc = "exited"
    /\ extracted.requests = 1
    /\ ~event.api_ok
    /\ event.mkdir_ok /\ event.save_ok
    /\ extracted.exit_code = 1

(***************************************************************************)
(* The request of the legacy entry point.                                  *)
(***************************************************************************)
\* main has encoded both images and its request is on the wire
LegacyRequestSent ==
    /\ event.bad_image = 0
    /\ pc \in {"status", "done"}
    /\ Len(net.sent) = 1

\* C38: the request of the legacy entry point carries the text of the
\* prompt file in its text entry and the two encoded images, in order, in
\* its image_url entries, and its model is not one of the arguments meant
\* for the images or the prompt
C38_LegacyRequest ==
    LegacyRequestSent =>
        LET body == net.sent[1].json
            content == body.messages[1].content
        IN /\ Len(content) = 3
           /\ content[1].type = "image_url"
           /\ content[1].url = "data:image/jpeg;base64," \o event.image1
           /\ content[2].type = "image_url"
           /\ content[2].url = "data:image/jpeg;base64," \o event.image2
           /\ content[3].type = "text"
           /\ content[3].text = event.prompt_text
           /\ body.model \notin {event.image1, event.image2, event.prompt_text}

====
